---- MODULE Spec2Model ----
(***************************************************************************)
(* Model of the front-end state machines of the game-save manager:         *)
(*   - the global loading stack   (composables/useGlobalLoading.ts 1-41)   *)
(*   - the notification queue     (composables/useGlobalLoading.ts 43-224) *)
(*   - the configuration store    (unnamed/part_002, useConfig)            *)
(* Everything runs on one event loop: an action is one run-to-completion   *)
(* step (a synchronous call, or the continuation after one await).         *)
(***************************************************************************)
EXTENDS Integers, Sequences, FiniteSets, TLC

\* ------------------------------------------------------------------ bounds
MaxCalls == 2
MaxNotifs == 3
MaxRefresh == 2
MaxSave == 1
MaxEvents == 2
MaxUnits == 2
MaxApply == 2
MaxEdits == 3
MaxRequests == 2
MaxAdds == 2
MaxDialogs == 2
MaxScans == 2
MaxDeletes == 2
MaxNavigations == 2
MaxRedirects == 3

\* ------------------------------------------------------- generic helpers
Range(s) == {s[i] : i \in 1..Len(s)}

Front(s) == SubSeq(s, 1, Len(s) - 1)

RECURSIVE FilterSeq(_, _)
\* Array.prototype.filter(item => item.id !== id)
FilterSeq(s, id) ==
    IF s = <<>> THEN <<>>
    ELSE IF Head(s).id # id THEN <<Head(s)>> \o FilterSeq(Tail(s), id)
         ELSE FilterSeq(Tail(s), id)

RECURSIVE FindIndexFrom(_, _, _)
FindIndexFrom(s, id, i) ==
    IF i > Len(s) THEN 0
    ELSE IF s[i].id = id THEN i
         ELSE FindIndexFrom(s, id, i + 1)

\* Array.prototype.findIndex(n => n.id === id); 0 stands for JavaScript's -1
\* because sequences are 1-based.
FindIndex(s, id) == FindIndexFrom(s, id, 1)

\* Array.prototype.splice(index, 1)
Splice(s, i) == SubSeq(s, 1, i - 1) \o SubSeq(s, i + 1, Len(s))

IdsOf(s) == [i \in 1..Len(s) |-> s[i].id]

RECURSIVE Without(_, _)
\* the subsequence of the ids in s that are not in the set S
Without(s, S) ==
    IF s = <<>> THEN <<>>
    ELSE IF Head(s) \in S THEN Without(Tail(s), S)
         ELSE <<Head(s)>> \o Without(Tail(s), S)

VARIABLES
    \* ---- global loading stack
    messageStack,   \* messageStack.value : string[]
    wl,             \* the withLoading calls: position, message, outcome of op, outcome of the call
    startOrder,     \* history: the withLoading calls in the order they started
    \* ---- notification queue
    messageQueue,           \* messageQueue.value : QueuedNotification[]
    activeNotifications,    \* activeNotifications.value : ActiveNotification[]
    isProcessing,           \* module-level flag
    workers,                \* number of processQueue invocations suspended in the 100ms delay
    nextId,                 \* source of fresh identifiers (generateId)
    handleClosed,           \* per notification: number of handle.close() calls made by closeNotification
    enqueued,               \* history: the addToQueue calls, in order
    rendered,               \* history: the ElNotification calls, in order
    closedPending,          \* history: ids removed from the pending queue by closeNotification
    expired,                \* ids of the rendered notifications whose duration timer has fired
    \* ---- configuration store
    isTauriEnv,         \* result of the capability probe (window.__TAURI__.core.invoke is a function)
    heap,               \* contents of the two objects config.value can refer to:
                        \*   "default" is the defaultConfig object, "data" the latest result.data
    configRef,          \* which object config.value refers to
    configIsLoading,    \* isLoading.value of the store
    backendDoc,         \* the configuration persisted by the backend
    refresh,            \* the refreshConfig calls: position and reply of getLocalConfig
    save,               \* the saveConfig calls: position, document sent, reply of setConfig, outcome
    listener,           \* subscription to quickActionCompleted
    eventLog,           \* history: payloads handed to the quickActionCompleted listener
    errorLog,           \* history: the bag of messages passed to logError
    race,               \* history of edits against event-triggered refreshes:
                        \*   byEvent: the refreshConfig calls started by the listener
                        \*   dirty: those of them that were in flight when the current document was
                        \*          edited in place, the edit not handed to saveConfig since
                        \*   lost: the calls whose completion replaced such an edited document
                        \*   overtaken: those of them whose document, already installed, was
                        \*          replaced by the different response to a call started earlier
    \* ---- device path reconciliation on the management page
    rc,                 \* checkCurrentDeviceSavePaths / copyPathsFromDevice: position, game.value,
                        \* currentDevice.value, candidates, dialogs shown, saveConfig calls
    \* ---- settings page
    settingsPage,       \* config.value.quick_action, its value before the latest
                        \* ensureQuickActionDefaults() and the number of such calls
    \* ---- backup and restore on the management page
    backupPage,         \* the three limit flags, the backup and restore requests, the
                        \* pending cooldown timers and the refresh_backups_info calls
    \* ---- add game page
    addGame,            \* config.value.games and the backend's games (names), the save
                        \* and quickAdd requests
    \* ---- application shell (App.vue, route middleware)
    app                 \* the device setup dialog's handler and the navigation in progress

loadingVars == <<messageStack, wl, startOrder>>
notifVars == <<messageQueue, activeNotifications, isProcessing, workers, nextId,
               handleClosed, enqueued, rendered, closedPending, expired>>
configVars == <<isTauriEnv, heap, configRef, configIsLoading, backendDoc, refresh, save,
                listener, eventLog, errorLog, race>>
pageVars == <<rc, settingsPage, backupPage, addGame, app>>

vars == <<loadingVars, notifVars, configVars, pageVars>>

\* =====================================================================
\* Global loading stack
\* =====================================================================
Calls == 1..MaxCalls
Msgs == {"backup", "restore"}
NoMsg == "undefined"
DefaultMsg == "common.operation_in_progress"
Values == {"v", "w"}
NoOutcome == [kind |-> "none", value |-> "none"]
Outcomes == [kind : {"resolved", "rejected"}, value : Values]

startLoading(stack, message) ==
    Append(stack, IF message = NoMsg THEN DefaultMsg ELSE message)

stopLoadingNoPop(stack) == stack

stopLoading(stack) ==
    IF Len(stack) > 0 THEN Front(stack) ELSE stack

isLoading == Len(messageStack) > 0

loadingMessage ==
    IF Len(messageStack) = 0 THEN DefaultMsg
    ELSE messageStack[Len(messageStack)]

withLoadingResultSwallow(opOutcome) == [kind |-> "resolved", value |-> opOutcome.value]

\* try { return await operation() } finally { stopLoading() }: the finally
\* block neither returns nor throws, so the outcome of op passes through.
withLoadingResult(opOutcome) == opOutcome

InitLoading ==
    /\ messageStack = <<>>
    /\ wl = [c \in Calls |-> [pc |-> "idle", message |-> NoMsg, op |-> NoOutcome, result |-> NoOutcome]]
    /\ startOrder = <<>>

\* withLoading(operation, message) up to the await: startLoading, then op is invoked
WithLoadingStart(c, message) ==
    /\ wl[c].pc = "idle"
    /\ messageStack' = startLoading(messageStack, message)
    /\ wl' = [wl EXCEPT ![c].pc = "awaiting", ![c].message = message]
    /\ startOrder' = Append(startOrder, c)
    /\ UNCHANGED <<notifVars, configVars, pageVars>>

\* the promise returned by operation() resolves or rejects
OperationSettle(c, outcome) ==
    /\ wl[c].pc = "awaiting"
    /\ wl' = [wl EXCEPT ![c].pc = "finally", ![c].op = outcome]
    /\ UNCHANGED <<messageStack, startOrder, notifVars, configVars, pageVars>>

\* the continuation of withLoading: finally { stopLoading() }, then the call settles
WithLoadingFinally(c) ==
    /\ wl[c].pc = "finally"
    /\ messageStack' = stopLoading(messageStack)
    /\ wl' = [wl EXCEPT ![c].pc = "done", ![c].result = withLoadingResult(wl[c].op)]
    /\ UNCHANGED <<startOrder, notifVars, configVars, pageVars>>

NextLoading ==
    \/ \E c \in Calls, m \in Msgs \cup {NoMsg} : WithLoadingStart(c, m)
    \/ \E c \in Calls, o \in Outcomes : OperationSettle(c, o)
    \/ \E c \in Calls : WithLoadingFinally(c)

\* =====================================================================
\* Notification queue
\* =====================================================================
NotificationTypes == {"success", "warning", "error", "info"}
Undefined == "undefined"
UndefinedDuration == -1
Ids == 1..(MaxNotifs + MaxRefresh + MaxSave)

defaultDurations(type) == 3000

defaultTitles(type) ==
    CASE type = "success" -> "misc.success"
      [] type = "warning" -> "misc.warning"
      [] type = "error" -> "misc.error"
      [] type = "info" -> "misc.info"

\* NotificationOptions; an absent title is Undefined, an absent duration is
\* UndefinedDuration, an absent persistent is FALSE (it is only tested for truth)
MkOptions(message, title, duration, persistent) ==
    [message |-> message, title |-> title, duration |-> duration, persistent |-> persistent]

\* the show* calls the model makes: every type, with and without title,
\* duration and persistent
ShowChoices ==
    { <<"success", MkOptions("saved", Undefined, UndefinedDuration, FALSE)>>,
      <<"warning", MkOptions("slow", Undefined, 5000, FALSE)>>,
      <<"error", MkOptions("failed", "Oops", UndefinedDuration, TRUE)>>,
      <<"info", MkOptions("saved", Undefined, UndefinedDuration, FALSE)>> }

\* Math.random().toString(36).substring(2, 15): taken to be fresh
generateId == nextId

\* the parameters show() hands to ElNotification
ElNotificationParams(type, options, id) ==
    [id |-> id,
     type |-> type,
     title |-> IF options.title = Undefined THEN defaultTitles(type) ELSE options.title,
     message |-> options.message,
     duration |-> IF options.duration # UndefinedDuration THEN options.duration
                  ELSE IF options.persistent THEN 0 ELSE defaultDurations(type)]

shiftLast(q) == [item |-> q[Len(q)], rest |-> Front(q)]

\* messageQueue.value.shift()
shift(q) == [item |-> Head(q), rest |-> Tail(q)]

\* show(type, options, id): ElNotification(...) and activeNotifications.push
show(n) ==
    /\ rendered' = Append(rendered, ElNotificationParams(n.type, n.options, n.id))
    /\ activeNotifications' = Append(activeNotifications, [id |-> n.id, handle |-> n.id])

processQueueNoFlag(q) ==
    IF Len(q) = 0
    THEN /\ messageQueue' = q
         /\ UNCHANGED <<isProcessing, workers, rendered, activeNotifications>>
    ELSE /\ isProcessing' = TRUE
         /\ messageQueue' = shift(q).rest
         /\ show(shift(q).item)
         /\ workers' = workers + 1

\* processQueue() called with the queue q, up to its first await (or its return)
processQueue(q) ==
    IF isProcessing \/ Len(q) = 0
    THEN /\ messageQueue' = q
         /\ UNCHANGED <<isProcessing, workers, rendered, activeNotifications>>
    ELSE /\ isProcessing' = TRUE
         /\ messageQueue' = shift(q).rest
         /\ show(shift(q).item)
         /\ workers' = workers + 1

\* addToQueue(type, options), the body of showSuccess/showWarning/showError/showInfo
addToQueue(type, options) ==
    /\ nextId' = nextId + 1
    /\ enqueued' = Append(enqueued, [id |-> generateId, type |-> type, message |-> options.message])
    /\ processQueue(Append(messageQueue, [type |-> type, options |-> options, id |-> generateId]))
    /\ UNCHANGED <<handleClosed, closedPending, expired>>

closeNotificationNoSplice(q, act, hc, id) ==
    LET index == FindIndex(act, id)
    IN [queue |-> FilterSeq(q, id),
        active |-> act,
        closed |-> IF index # 0 THEN [hc EXCEPT ![act[index].handle] = @ + 1] ELSE hc]

closeNotificationNoFilter(q, act, hc, id) ==
    LET index == FindIndex(act, id)
    IN [queue |-> q,
        active |-> IF index # 0 THEN Splice(act, index) ELSE act,
        closed |-> IF index # 0 THEN [hc EXCEPT ![act[index].handle] = @ + 1] ELSE hc]

\* closeNotification(id) as a function of the queue, the active list and the
\* handles' close counts
closeNotification(q, act, hc, id) ==
    LET index == FindIndex(act, id)
    IN [queue |-> FilterSeq(q, id),
        active |-> IF index # 0 THEN Splice(act, index) ELSE act,
        closed |-> IF index # 0 THEN [hc EXCEPT ![act[index].handle] = @ + 1] ELSE hc]

InitNotif ==
    /\ messageQueue = <<>>
    /\ activeNotifications = <<>>
    /\ isProcessing = FALSE
    /\ workers = 0
    /\ nextId = 1
    /\ handleClosed = [i \in Ids |-> 0]
    /\ enqueued = <<>>
    /\ rendered = <<>>
    /\ closedPending = {}
    /\ expired = {}

\* showSuccess / showWarning / showError / showInfo
Show(type, options) ==
    /\ nextId <= MaxNotifs
    /\ addToQueue(type, options)
    /\ UNCHANGED <<loadingVars, configVars, pageVars>>

DelayElapsedStopEarly ==
    /\ workers > 0
    /\ isProcessing' = FALSE
    /\ workers' = workers - 1
    /\ UNCHANGED <<messageQueue, rendered, activeNotifications>>
    /\ UNCHANGED <<nextId, handleClosed, enqueued, closedPending, expired, loadingVars, configVars,
                   pageVars>>

\* the 100ms timer of a suspended processQueue fires: the while loop goes on
DelayElapsed ==
    /\ workers > 0
    /\ IF Len(messageQueue) > 0
       THEN /\ messageQueue' = shift(messageQueue).rest
            /\ show(shift(messageQueue).item)
            /\ UNCHANGED <<isProcessing, workers>>
       ELSE /\ isProcessing' = FALSE
            /\ workers' = workers - 1
            /\ UNCHANGED <<messageQueue, rendered, activeNotifications>>
    /\ UNCHANGED <<nextId, handleClosed, enqueued, closedPending, expired, loadingVars, configVars,
                   pageVars>>

CloseNotification(id) ==
    LET r == closeNotification(messageQueue, activeNotifications, handleClosed, id)
    IN /\ messageQueue' = r.queue
       /\ activeNotifications' = r.active
       /\ handleClosed' = r.closed
       /\ closedPending' = closedPending \cup
              {messageQueue[i].id : i \in {j \in 1..Len(messageQueue) : messageQueue[j].id = id}}
       /\ UNCHANGED <<isProcessing, workers, nextId, enqueued, rendered, expired, loadingVars,
                      configVars, pageVars>>

\* the duration timer of a rendered notification fires (duration > 0; with
\* duration 0 ElNotification never closes by itself): the notification leaves
\* the screen.  show() registers no onClose callback, so nothing else happens.
TimeoutExpired(id) ==
    /\ \E i \in 1..Len(rendered) : rendered[i].id = id /\ rendered[i].duration > 0
    /\ handleClosed[id] = 0
    /\ id \notin expired
    /\ expired' = expired \cup {id}
    /\ UNCHANGED <<messageQueue, activeNotifications, isProcessing, workers, nextId, handleClosed,
                   enqueued, rendered, closedPending, loadingVars, configVars, pageVars>>

NextNotif ==
    \/ \E ch \in ShowChoices : Show(ch[1], ch[2])
    \/ DelayElapsed
    \/ \E id \in Ids : CloseNotification(id)

\* the queue with the duration timers of the rendered notifications
NextTimeout ==
    \/ NextNotif
    \/ \E id \in Ids : TimeoutExpired(id)


\* =====================================================================
\* Configuration store (useConfig)
\* =====================================================================
\* A configuration document is abstracted to the set of entries it holds
\* (games, devices, ...); the default document holds none.
Items == {"a"}
Docs == SUBSET Items
DEFAULT_CONFIG == {}

RefreshCalls == 1..MaxRefresh
SaveCalls == 1..MaxSave
ReplyKinds == {"ok", "error", "throw"}
NoReply == [kind |-> "none", data |-> {}]
Statuses == {"Success", "Failure"}
Operations == {"Backup", "Restore"}
Payloads == [status : Statuses, operation : Operations]

\* config.value
ConfigValue == heap[configRef]

\* the replies a backend command can produce: outside the desktop host there
\* is no invoke hook, and the command throws
RepliesIn(env) == IF env THEN ReplyKinds ELSE {"throw"}

Started(calls) == {c \in DOMAIN calls : calls[c].pc # "idle"}

InFlight(calls) == {c \in DOMAIN calls : calls[c].pc \in {"awaiting", "replied"}}

LogMessages == {"Failed to load config", "Failed to set config",
                "Failed to listen quick action events"}

\* showError({ message }) of the store
showError(message) == addToQueue("error", MkOptions(message, Undefined, UndefinedDuration, FALSE))

\* logError(message)
logError(message) == errorLog' = [errorLog EXCEPT ![message] = @ + 1]

finallyIsLoadingOnSuccessOnly(replyKind) == replyKind # "ok"

\* finally { isLoading.value = false }
finallyIsLoading(replyKind) == FALSE

saveConfigOutcomeRethrow(replyKind) == IF replyKind = "ok" THEN "resolved" ELSE "rejected"

\* saveConfig has no return value and its catch block does not rethrow
saveConfigOutcome(replyKind) == "resolved"

shouldRefreshAnyOperation(payload) == payload.status = "Success"

\* payload.status === 'Success' && payload.operation === 'Backup'
shouldRefresh(payload) == payload.status = "Success" /\ payload.operation = "Backup"

refreshedDocumentKeepCurrent(current, data) == current

refreshedDocumentMerge(current, data) == current \cup data

\* config.value = result.data: the fetched document replaces the current one
refreshedDocument(current, data) == data

\* refreshConfig() up to its await: isLoading.value = true, getLocalConfig is invoked
refreshConfigStart ==
    LET c == Cardinality(Started(refresh)) + 1
    IN /\ c \in RefreshCalls
       /\ configIsLoading' = TRUE
       /\ refresh' = [refresh EXCEPT ![c].pc = "awaiting"]

InitConfig ==
    /\ isTauriEnv \in BOOLEAN
    /\ heap = [default |-> DEFAULT_CONFIG, data |-> DEFAULT_CONFIG]
    /\ configRef = "default"
    /\ backendDoc = Items
    /\ save = [c \in SaveCalls |-> [pc |-> "idle", arg |-> {}, reply |-> NoReply, result |-> "none"]]
    /\ eventLog = <<>>
    /\ errorLog = [m \in LogMessages |-> 0]
    /\ race = [byEvent |-> {}, dirty |-> {}, lost |-> {}, overtaken |-> {}]
    \* the module body: in the desktop host it subscribes to quickActionCompleted
    \* and calls refreshConfig() once
    /\ listener = IF isTauriEnv THEN "registering" ELSE "none"
    /\ configIsLoading = isTauriEnv
    /\ refresh = [c \in RefreshCalls |->
                    [pc |-> IF isTauriEnv /\ c = 1 THEN "awaiting" ELSE "idle", reply |-> NoReply]]

\* a page calls refreshConfig()
RefreshConfig ==
    /\ refreshConfigStart
    /\ UNCHANGED <<race, isTauriEnv, heap, configRef, backendDoc, save, listener, eventLog, errorLog>>
    /\ UNCHANGED <<loadingVars, notifVars, pageVars>>

\* commands.getLocalConfig() settles: ok with the persisted document, an error
\* result, or an exception
GetLocalConfigReply(c, kind) ==
    /\ refresh[c].pc = "awaiting"
    /\ kind \in RepliesIn(isTauriEnv)
    /\ refresh' = [refresh EXCEPT ![c].pc = "replied",
                                  ![c].reply = [kind |-> kind,
                                                data |-> IF kind = "ok" THEN backendDoc ELSE {}]]
    /\ UNCHANGED <<race, isTauriEnv, heap, configRef, configIsLoading, backendDoc, save, listener,
                   eventLog, errorLog>>
    /\ UNCHANGED <<loadingVars, notifVars, pageVars>>

\* the continuation of refreshConfig after the await
refreshConfigSettle(c) ==
    /\ refresh[c].pc = "replied"
    /\ refresh' = [refresh EXCEPT ![c].pc = "done", ![c].reply = NoReply]
    /\ IF refresh[c].reply.kind = "ok"
       THEN \* config.value = result.data
            /\ heap' = [heap EXCEPT !["data"] = refreshedDocument(ConfigValue, refresh[c].reply.data)]
            /\ configRef' = "data"
            /\ race' = [race EXCEPT !.dirty = {},
                                    !.lost = IF c \in race.dirty /\ refresh[c].reply.data # ConfigValue
                                             THEN @ \cup {c} ELSE @,
                                    !.overtaken = @ \cup
                                        {m \in race.byEvent :
                                            /\ m > c /\ refresh[m].pc = "done"
                                            /\ refresh[c].reply.data # ConfigValue}]
            /\ UNCHANGED <<errorLog, notifVars>>
       ELSE \* catch: logError, showError, config.value = defaultConfig
            /\ logError("Failed to load config")
            /\ showError("error.config_load_failed")
            /\ configRef' = "default"
            /\ race' = [race EXCEPT !.dirty = IF configRef = "default" THEN @ ELSE {}]
            /\ UNCHANGED heap
    /\ configIsLoading' = finallyIsLoading(refresh[c].reply.kind)
    /\ UNCHANGED <<isTauriEnv, backendDoc, save, listener, eventLog>>
    /\ UNCHANGED loadingVars

\* refreshConfig settles with no page watching the configuration
RefreshSettle(c) == refreshConfigSettle(c) /\ UNCHANGED pageVars

\* The pages are rendered once the setup of App.vue has finished: at once in
\* the browser, and in the desktop host after its awaited refreshConfig()
\* has settled.
UiReady == ~isTauriEnv \/ \E c \in RefreshCalls : refresh[c].pc = "done"

\* a page edits the document in place through config.value (for example
\* config.value.devices[id] = device in handleDeviceSetup)
EditConfig(item) ==
    /\ UiReady
    /\ heap' = [heap EXCEPT ![configRef] =
                   IF item \in @ THEN @ \ {item} ELSE @ \cup {item}]
    /\ race' = [race EXCEPT !.dirty = @ \cup (InFlight(refresh) \cap race.byEvent)]
    /\ UNCHANGED <<isTauriEnv, configRef, configIsLoading, backendDoc, refresh, save, listener,
                   eventLog, errorLog>>
    /\ UNCHANGED <<loadingVars, notifVars, pageVars>>

\* saveConfig() up to its await: setConfig is invoked with the current document
SaveConfig ==
    LET c == Cardinality(Started(save)) + 1
    IN /\ c \in SaveCalls
       /\ UiReady
       /\ save' = [save EXCEPT ![c].pc = "awaiting", ![c].arg = ConfigValue]
       /\ race' = [race EXCEPT !.dirty = {}]
       /\ UNCHANGED <<isTauriEnv, heap, configRef, configIsLoading, backendDoc, refresh,
                      listener, eventLog, errorLog>>
       /\ UNCHANGED <<loadingVars, notifVars, pageVars>>

\* commands.setConfig(doc) settles; the backend persists doc when it answers ok
SetConfigReply(c, kind) ==
    /\ save[c].pc = "awaiting"
    /\ kind \in RepliesIn(isTauriEnv)
    /\ save' = [save EXCEPT ![c].pc = "replied", ![c].reply = [kind |-> kind, data |-> {}]]
    /\ backendDoc' = IF kind = "ok" THEN save[c].arg ELSE backendDoc
    /\ UNCHANGED <<race, isTauriEnv, heap, configRef, configIsLoading, refresh, listener, eventLog,
                   errorLog>>
    /\ UNCHANGED <<loadingVars, notifVars, pageVars>>

\* the continuation of saveConfig after the await
SaveSettle(c) ==
    /\ save[c].pc = "replied"
    /\ save' = [save EXCEPT ![c].pc = "done", ![c].arg = {}, ![c].reply = NoReply,
                            ![c].result = saveConfigOutcome(save[c].reply.kind)]
    /\ IF save[c].reply.kind = "ok"
       THEN UNCHANGED <<errorLog, notifVars>>
       ELSE /\ logError("Failed to set config")
            /\ showError("error.set_config_failed")
    /\ UNCHANGED <<race, isTauriEnv, heap, configRef, configIsLoading, backendDoc, refresh, listener,
                   eventLog>>
    /\ UNCHANGED <<loadingVars, pageVars>>

\* a quick action (hotkey or tray) makes the backend change the persisted document
BackendChange(doc) ==
    /\ isTauriEnv
    /\ doc # backendDoc
    /\ backendDoc' = doc
    /\ UNCHANGED <<race, isTauriEnv, heap, configRef, configIsLoading, refresh, save, listener,
                   eventLog, errorLog>>
    /\ UNCHANGED <<loadingVars, notifVars, pageVars>>

\* events.quickActionCompleted.listen(...) resolves
ListenRegistered ==
    /\ listener = "registering"
    /\ listener' = "registered"
    /\ UNCHANGED <<race, isTauriEnv, heap, configRef, configIsLoading, backendDoc, refresh, save,
                   eventLog, errorLog>>
    /\ UNCHANGED <<loadingVars, notifVars, pageVars>>

\* events.quickActionCompleted.listen(...) rejects: .catch logs the error
ListenFailed ==
    /\ listener = "registering"
    /\ listener' = "failed"
    /\ logError("Failed to listen quick action events")
    /\ UNCHANGED <<race, isTauriEnv, heap, configRef, configIsLoading, backendDoc, refresh, save,
                   eventLog>>
    /\ UNCHANGED <<loadingVars, notifVars, pageVars>>

\* the listener is called with a quickActionCompleted event
QuickActionCompleted(payload) ==
    /\ listener = "registered"
    /\ Len(eventLog) < MaxEvents
    /\ eventLog' = Append(eventLog, payload)
    /\ IF shouldRefresh(payload)
       THEN /\ refreshConfigStart
            /\ race' = [race EXCEPT !.byEvent = @ \cup {Cardinality(Started(refresh)) + 1}]
       ELSE UNCHANGED <<configIsLoading, refresh, race>>
    /\ UNCHANGED <<isTauriEnv, heap, configRef, backendDoc, save, listener, errorLog>>
    /\ UNCHANGED <<loadingVars, notifVars, pageVars>>

\* the store driven by its callers: refreshConfig, saveConfig and in-place edits
NextConfig ==
    \/ RefreshConfig
    \/ \E c \in RefreshCalls, k \in ReplyKinds : GetLocalConfigReply(c, k)
    \/ \E c \in RefreshCalls : RefreshSettle(c)
    \/ \E i \in Items : EditConfig(i)
    \/ SaveConfig
    \/ \E c \in SaveCalls, k \in ReplyKinds : SetConfigReply(c, k)
    \/ \E c \in SaveCalls : SaveSettle(c)
    \/ \E d \in Docs : BackendChange(d)
    \/ DelayElapsed

\* event-triggered refreshes against the in-place edits of the pages
NextRace ==
    \/ ListenRegistered
    \/ \E p \in Payloads : QuickActionCompleted(p)
    \/ \E c \in RefreshCalls, k \in ReplyKinds : GetLocalConfigReply(c, k)
    \/ \E c \in RefreshCalls : RefreshSettle(c)
    \/ \E i \in Items : EditConfig(i)

\* the store driven by the backend's quickActionCompleted events
NextEvents ==
    \/ ListenRegistered
    \/ ListenFailed
    \/ \E p \in Payloads : QuickActionCompleted(p)
    \/ RefreshConfig
    \/ \E c \in RefreshCalls, k \in ReplyKinds : GetLocalConfigReply(c, k)
    \/ \E c \in RefreshCalls : RefreshSettle(c)
    \/ \E d \in Docs : BackendChange(d)
    \/ DelayElapsed

\* =====================================================================
\* Device path reconciliation (pages/Management/[name].vue)
\* =====================================================================
\* Device ids. The id is also needed as text, for the selection prompt.
CurrentId == "b0"
Devices == {"a1", "a2", "b0"}
DeviceChars(id) ==
    CASE id = "a1" -> <<"a", "1">>
      [] id = "a2" -> <<"a", "2">>
      [] id = "b0" -> <<"b", "0">>

\* Object.entries(unit.paths) enumerates the keys of a mapping in this order
DeviceOrder == <<"a1", "a2", "b0">>

\* A path of a device in a mapping: Absent (no such key), the empty string,
\* a string of white space, or a path
Absent == "undefined"
Blank == " "
PathValues == {Absent, "", Blank, "/a/save", "/b/save", "/c/save"}

\* String.prototype.trim()
Trim(p) == IF p = Blank THEN "" ELSE p

\* x?.trim()
OptTrim(p) == IF p = Absent THEN Absent ELSE Trim(p)

\* the truth value JavaScript gives a string or undefined
Truthy(p) == p \notin {Absent, ""}

\* Record<string, string> | undefined (paths of a save unit, game_paths of a game)
PathMaps ==
    {m \in [Devices -> PathValues] :
        /\ m["b0"] \in {Absent, Blank, "/c/save"}
        /\ m["a1"] \in {"", "/a/save"}
        /\ m["a2"] \in {Blank, "/b/save"}}
UndefinedMapping == [defined |-> FALSE, map |-> [d \in Devices |-> Absent]]
Mappings == {UndefinedMapping} \cup {[defined |-> TRUE, map |-> m] : m \in PathMaps}

\* SaveUnit, and save_paths: SaveUnit[] | undefined
SaveUnits == [paths : Mappings]
UnitSeqs == UNION {[1..n -> SaveUnits] : n \in 0..MaxUnits}
SavePaths == {[defined |-> FALSE, units |-> <<>>]} \cup
             {[defined |-> TRUE, units |-> u] : u \in UnitSeqs}

\* Game, reduced to the fields the reconciliation reads and writes
Games == [save_paths : SavePaths, game_paths : Mappings]

\* what the user types into ElMessageBox.prompt
InputValues == {<<>>, <<"a", "1">>, <<"a", "2">>, <<"a">>, <<"x">>, <<".">>}
NoInput == [kind |-> "none", value |-> <<>>]
NoSource == "none"

\* String.prototype.startsWith
StartsWith(s, p) == Len(p) <= Len(s) /\ SubSeq(s, 1, Len(p)) = p

\* String.prototype.includes
Includes(s, p) == \E i \in 0..(Len(s) - Len(p)) : SubSeq(s, i + 1, i + Len(p)) = p

\* id.substring(0, 8) + '...'
Label(id) ==
    LET chars == DeviceChars(id)
    IN SubSeq(chars, 1, IF Len(chars) < 8 THEN Len(chars) ELSE 8) \o <<".", ".", ".">>

allPathsEmptySome(game, deviceId) ==
    \E i \in 1..Len(game.save_paths.units) :
        LET unit == game.save_paths.units[i]
        IN \/ ~unit.paths.defined
           \/ ~Truthy(unit.paths.map[deviceId])
           \/ Trim(unit.paths.map[deviceId]) = ""

\* game.value.save_paths.every(unit => !unit.paths || !unit.paths[deviceId]
\*                                      || unit.paths[deviceId].trim() === '')
allPathsEmpty(game, deviceId) ==
    \A i \in 1..Len(game.save_paths.units) :
        LET unit == game.save_paths.units[i]
        IN \/ ~unit.paths.defined
           \/ ~Truthy(unit.paths.map[deviceId])
           \/ Trim(unit.paths.map[deviceId]) = ""

\* Object.entries(unit.paths).forEach(([id, path]) => { if (id !== deviceId && path
\*     && path.trim() !== '') devicesWithPaths.add(id) }), the Set kept in insertion order
RECURSIVE AddDevices(_, _, _, _)
AddDevices(paths, deviceId, order, acc) ==
    IF order = <<>> THEN acc
    ELSE LET id == Head(order)
             path == paths.map[id]
         IN AddDevices(paths, deviceId, Tail(order),
                IF /\ id # deviceId
                   /\ Truthy(path)
                   /\ Trim(path) # ""
                   /\ id \notin Range(acc)
                THEN Append(acc, id) ELSE acc)

RECURSIVE ScanUnits(_, _, _)
ScanUnits(units, deviceId, acc) ==
    IF units = <<>> THEN acc
    ELSE ScanUnits(Tail(units), deviceId,
             IF Head(units).paths.defined
             THEN AddDevices(Head(units).paths, deviceId, DeviceOrder, acc)
             ELSE acc)

devicesWithPathsFirstUnit(game, deviceId) ==
    ScanUnits(IF game.save_paths.units = <<>> THEN <<>> ELSE <<Head(game.save_paths.units)>>,
              deviceId, <<>>)

\* the devicesWithPaths set of checkCurrentDeviceSavePaths: only the save
\* units' mappings are scanned
devicesWithPaths(game, deviceId) == ScanUnits(game.save_paths.units, deviceId, <<>>)

noSourceNever(candidates) == FALSE

\* if (devicesWithPaths.size === 0) return
noSource(candidates) == Len(candidates) = 0

singleOptionNever(deviceOptions) == FALSE

\* if (deviceOptions.length === 1)
singleOption(deviceOptions) == Len(deviceOptions) = 1

\* deviceOptions.find(d => d.value === value || d.value.startsWith(value)
\*                         || d.label.includes(value)); NoSource when none matches
findSelected(deviceOptions, value) ==
    LET matches(d) == \/ DeviceChars(d) = value
                      \/ StartsWith(DeviceChars(d), value)
                      \/ Includes(Label(d), value)
        found == {i \in 1..Len(deviceOptions) : matches(deviceOptions[i])}
    IN IF found = {} THEN NoSource
       ELSE deviceOptions[CHOOSE i \in found : \A j \in found : i <= j]

copySaveUnitOverwrite(unit, sourceDeviceId, targetDeviceId) ==
    IF /\ unit.paths.defined
       /\ Truthy(OptTrim(unit.paths.map[sourceDeviceId]))
    THEN [unit |-> [unit EXCEPT !.paths.map[targetDeviceId] = unit.paths.map[sourceDeviceId]],
          updated |-> TRUE]
    ELSE [unit |-> unit, updated |-> FALSE]

\* the body of game.value.save_paths.forEach in copyPathsFromDevice
copySaveUnit(unit, sourceDeviceId, targetDeviceId) ==
    IF /\ unit.paths.defined
       /\ Truthy(OptTrim(unit.paths.map[sourceDeviceId]))
       /\ \/ ~Truthy(unit.paths.map[targetDeviceId])
          \/ ~Truthy(Trim(unit.paths.map[targetDeviceId]))
    THEN [unit |-> [unit EXCEPT !.paths.map[targetDeviceId] = unit.paths.map[sourceDeviceId]],
          updated |-> TRUE]
    ELSE [unit |-> unit, updated |-> FALSE]

\* the game_paths block of copyPathsFromDevice
copyGamePaths(game_paths, sourceDeviceId, targetDeviceId) ==
    IF /\ game_paths.defined
       /\ Truthy(OptTrim(game_paths.map[sourceDeviceId]))
       /\ \/ ~Truthy(game_paths.map[targetDeviceId])
          \/ ~Truthy(Trim(game_paths.map[targetDeviceId]))
    THEN [game_paths |-> [game_paths EXCEPT !.map[targetDeviceId] = game_paths.map[sourceDeviceId]],
          updated |-> TRUE]
    ELSE [game_paths |-> game_paths, updated |-> FALSE]

\* copyPathsFromDevice up to `if (updated)`: the game after the copy, and updated
copyPaths(game, sourceDeviceId, targetDeviceId) ==
    LET units == game.save_paths.units
        copied == [i \in 1..Len(units) |-> copySaveUnit(units[i], sourceDeviceId, targetDeviceId)]
        launch == copyGamePaths(game.game_paths, sourceDeviceId, targetDeviceId)
    IN [game |-> [save_paths |-> [game.save_paths EXCEPT
                                     !.units = [i \in 1..Len(units) |-> copied[i].unit]],
                  game_paths |-> launch.game_paths],
        updated |-> (\E i \in 1..Len(units) : copied[i].updated) \/ launch.updated]

shouldSaveWhenFound(updated, found) == found

\* if (updated) { const index = config.value.games.findIndex(...); if (index !== -1) ...
shouldSave(updated, found) == updated /\ found

\* the page before the route watcher runs: game.value is a game of the
\* configuration (or a game the configuration no longer holds), currentDevice.value
\* is the device a former fetchCurrentDevice() stored, or null
InitManagement ==
    \E g \in Games, st \in {<<CurrentId, TRUE>>, <<"null", TRUE>>, <<CurrentId, FALSE>>} :
        rc = [pc |-> "idle", game |-> g, game0 |-> g, currentDevice |-> st[1],
              inConfig |-> st[2], needed |-> FALSE, candidates |-> <<>>,
              confirms |-> 0, prompts |-> 0, answer |-> "none", input |-> NoInput,
              source |-> NoSource, updated |-> FALSE, drawer |-> FALSE]

\* the page is not open
RcUnmounted == [pc |-> "unmounted"]

\* checkCurrentDeviceSavePaths() up to `await fetchCurrentDevice()`
CheckCurrentDeviceSavePaths ==
    /\ rc.pc = "idle"
    /\ rc' = [rc EXCEPT !.pc = "fetching"]
    /\ UNCHANGED <<loadingVars, notifVars, configVars, settingsPage, backupPage, addGame, app>>

\* copyPathsFromDevice(sourceDeviceId) up to `await saveConfig()` (or to its return),
\* as a function of the page state r
copyPathsFromDevice(r, sourceDeviceId) ==
    IF r.currentDevice = "null"
    THEN /\ rc' = [r EXCEPT !.pc = "done", !.source = sourceDeviceId]
         /\ UNCHANGED save
    ELSE LET res == copyPaths(r.game, sourceDeviceId, r.currentDevice)
             c == Cardinality(Started(save)) + 1
         IN IF shouldSave(res.updated, r.inConfig)
            THEN /\ c \in SaveCalls
                 /\ rc' = [r EXCEPT !.pc = "saving", !.source = sourceDeviceId,
                                    !.game = res.game, !.updated = res.updated]
                 /\ save' = [save EXCEPT ![c].pc = "awaiting", ![c].arg = ConfigValue]
            ELSE /\ rc' = [r EXCEPT !.pc = "done", !.source = sourceDeviceId,
                                    !.game = res.game, !.updated = res.updated]
                 /\ UNCHANGED save

\* commands.getCurrentDeviceInfo() settles: the rest of fetchCurrentDevice, then
\* checkCurrentDeviceSavePaths up to `await ElMessageBox.confirm(...)` (or to its return)
GetCurrentDeviceInfoReply(kind) ==
    /\ rc.pc = "fetching"
    /\ kind \in ReplyKinds
    /\ CASE kind = "ok" -> UNCHANGED notifVars
         [] kind = "error" -> showError("device info error")
         [] kind = "throw" -> showError("error.get_device_info_failed")
    /\ LET device == IF kind = "ok" THEN CurrentId ELSE rc.currentDevice
           r == [rc EXCEPT !.currentDevice = device]
       IN IF device = "null" \/ ~r.game.save_paths.defined
          THEN rc' = [r EXCEPT !.pc = "done"]
          ELSE IF ~allPathsEmpty(r.game, device)
          THEN rc' = [r EXCEPT !.pc = "done"]
          ELSE LET candidates == devicesWithPaths(r.game, device)
               IN IF noSource(candidates)
                  THEN rc' = [r EXCEPT !.pc = "done", !.needed = TRUE, !.candidates = candidates]
                  ELSE rc' = [r EXCEPT !.pc = "confirm", !.needed = TRUE,
                                       !.candidates = candidates, !.confirms = @ + 1]
    /\ UNCHANGED <<loadingVars, configVars, settingsPage, backupPage, addGame, app>>

\* ElMessageBox.confirm settles: it resolves with 'confirm' or rejects
ConfirmAnswer(answer) ==
    /\ rc.pc = "confirm"
    /\ answer \in {"confirm", "cancel"}
    /\ LET r == [rc EXCEPT !.answer = answer]
       IN IF answer # "confirm"
          THEN rc' = [r EXCEPT !.pc = "done"] /\ UNCHANGED save
          ELSE IF singleOption(r.candidates)
          THEN copyPathsFromDevice(r, r.candidates[1])
          ELSE rc' = [r EXCEPT !.pc = "select", !.prompts = @ + 1] /\ UNCHANGED save
    /\ UNCHANGED <<race, isTauriEnv, heap, configRef, configIsLoading, backendDoc, refresh,
                   listener, eventLog, errorLog>>
    /\ UNCHANGED <<loadingVars, notifVars, settingsPage, backupPage, addGame, app>>

\* ElMessageBox.prompt settles: it resolves with the text typed or rejects
PromptAnswer(input) ==
    /\ rc.pc = "select"
    /\ LET r == [rc EXCEPT !.input = input]
           selectedDevice == findSelected(r.candidates, input.value)
       IN IF input.kind = "cancel" \/ selectedDevice = NoSource
          THEN rc' = [r EXCEPT !.pc = "done"] /\ UNCHANGED save
          ELSE copyPathsFromDevice(r, selectedDevice)
    /\ UNCHANGED <<race, isTauriEnv, heap, configRef, configIsLoading, backendDoc, refresh,
                   listener, eventLog, errorLog>>
    /\ UNCHANGED <<loadingVars, notifVars, settingsPage, backupPage, addGame, app>>

\* a direct call copyPathsFromDevice(sourceDeviceId)
CopyPathsFromDevice(sourceDeviceId) ==
    /\ rc.pc = "idle"
    /\ copyPathsFromDevice(rc, sourceDeviceId)
    /\ UNCHANGED <<race, isTauriEnv, heap, configRef, configIsLoading, backendDoc, refresh,
                   listener, eventLog, errorLog>>
    /\ UNCHANGED <<loadingVars, notifVars, settingsPage, backupPage, addGame, app>>

\* copyPathsFromDevice after `await saveConfig()`
CopyPathsSaved ==
    /\ rc.pc = "saving"
    /\ \E c \in SaveCalls :
          /\ save[c].pc = "done"
          /\ IF save[c].result = "resolved"
             THEN /\ addToQueue("success", MkOptions("manage.paths_copied_success", Undefined,
                                                     UndefinedDuration, FALSE))
                  /\ rc' = [rc EXCEPT !.pc = "done", !.drawer = TRUE]
             ELSE /\ showError("error.save_config_failed")
                  /\ rc' = [rc EXCEPT !.pc = "done"]
    /\ UNCHANGED <<loadingVars, configVars, settingsPage, backupPage, addGame, app>>

\* the route watcher's checkCurrentDeviceSavePaths() and the user's answers
NextReconcile ==
    \/ CheckCurrentDeviceSavePaths
    \/ \E k \in ReplyKinds : GetCurrentDeviceInfoReply(k)
    \/ \E a \in {"confirm", "cancel"} : ConfirmAnswer(a)
    \/ \E v \in InputValues : PromptAnswer([kind |-> "value", value |-> v])
    \/ PromptAnswer([kind |-> "cancel", value |-> <<>>])
    \/ \E c \in SaveCalls, k \in ReplyKinds : SetConfigReply(c, k)
    \/ \E c \in SaveCalls : SaveSettle(c)
    \/ CopyPathsSaved

\* copyPathsFromDevice called with any source device on any game
NextCopy ==
    \/ \E d \in Devices : CopyPathsFromDevice(d)
    \/ \E c \in SaveCalls, k \in ReplyKinds : SetConfigReply(c, k)
    \/ \E c \in SaveCalls : SaveSettle(c)
    \/ CopyPathsSaved

\* =====================================================================
\* Quick action settings (pages/Settings.vue)
\* =====================================================================
\* QuickActionSoundSource | undefined: kind "undefined" stands for a missing slot
SoundSources ==
    {[kind |-> "undefined", path |-> ""], [kind |-> "default", path |-> ""],
     [kind |-> "file", path |-> ""], [kind |-> "file", path |-> "x.wav"]}
DefaultSource == [kind |-> "default", path |-> ""]

\* QuickActionSoundPreferences | undefined
NoSounds == [defined |-> FALSE, success |-> [kind |-> "undefined", path |-> ""],
             failure |-> [kind |-> "undefined", path |-> ""]]
Sounds == {NoSounds} \cup [defined : {TRUE}, success : SoundSources, failure : SoundSources]

\* boolean | undefined
OptBooleans == {"undefined", "true", "false"}

\* config.value.quick_action: QuickActionsSettings | undefined
NoQuickAction == [defined |-> FALSE, enable_sound |-> "undefined",
                  enable_notification |-> "undefined", sounds |-> NoSounds,
                  quick_action_game |-> "none"]
QuickActions ==
    {NoQuickAction} \cup
    [defined : {TRUE}, enable_sound : OptBooleans, enable_notification : OptBooleans,
     sounds : Sounds, quick_action_game : {"none", "g1"}]

ensureQuickActionDefaultsForceSound(quick_action) ==
    IF ~quick_action.defined THEN quick_action
    ELSE [quick_action EXCEPT
            !.enable_sound = "true",
            !.enable_notification = IF @ = "undefined" THEN "true" ELSE @,
            !.sounds = IF ~@.defined
                       THEN [defined |-> TRUE, success |-> DefaultSource, failure |-> DefaultSource]
                       ELSE @]

\* ensureQuickActionDefaults(), as a function of config.value.quick_action
ensureQuickActionDefaults(quick_action) ==
    IF ~quick_action.defined THEN quick_action
    ELSE [quick_action EXCEPT
            !.enable_sound = IF @ = "undefined" THEN "true" ELSE @,
            !.enable_notification = IF @ = "undefined" THEN "true" ELSE @,
            !.sounds = IF ~@.defined
                       THEN [defined |-> TRUE, success |-> DefaultSource, failure |-> DefaultSource]
                       ELSE @]

\* the settings page is not open
SettingsUnmounted == [calls |-> 0]

\* the settings page on any quick_action value the configuration may hold
InitSettings ==
    \E q \in QuickActions : settingsPage = [quick_action |-> q, before |-> q, calls |-> 0]

\* a call of ensureQuickActionDefaults()
EnsureQuickActionDefaults ==
    /\ settingsPage.calls < MaxApply
    /\ settingsPage' = [quick_action |-> ensureQuickActionDefaults(settingsPage.quick_action),
                        before |-> settingsPage.quick_action,
                        calls |-> settingsPage.calls + 1]
    /\ UNCHANGED <<loadingVars, notifVars, configVars, rc, backupPage, addGame, app>>

NextQuickAction == EnsureQuickActionDefaults

\* ---- sound mode, sound path and preview
Effects == {"success", "failure"}
SoundModes == {"default", "file"}
InputPaths == {"x.wav"}
ChosenPaths == {"y.wav"}
NoPreferences == [defined |-> FALSE, enable_sound |-> "undefined", shared |-> FALSE,
                  sounds |-> NoSounds]

\* source?.kind === "file"
isFileSource(source) == source.kind = "file"

\* cloneSoundSource(source): a new object, the path copied as a string
cloneSoundSource(source) ==
    IF isFileSource(source) THEN [kind |-> "file", path |-> source.path] ELSE DefaultSource

\* ensureSoundSlots(): the configuration after ensureQuickActionDefaults(); the
\* slots are its sounds (undefined when there is no quick_action)
ensureSoundSlots(quick_action) == ensureQuickActionDefaults(quick_action)

setSoundModeBlankPath(source, mode) ==
    IF mode = "default" THEN DefaultSource ELSE [kind |-> "file", path |-> ""]

\* the slot a mode setter assigns: { kind: "default" } or { kind: "file", path: existingPath }
setSoundMode(source, mode) ==
    IF mode = "default" THEN DefaultSource
    ELSE [kind |-> "file", path |-> IF isFileSource(source) THEN source.path ELSE ""]

buildSoundPreferencesLive(quick_action) ==
    LET q == ensureSoundSlots(quick_action)
    IN IF ~quick_action.defined \/ ~q.sounds.defined THEN NoPreferences
       ELSE [defined |-> TRUE,
             enable_sound |-> IF q.enable_sound = "undefined" THEN "true" ELSE q.enable_sound,
             shared |-> TRUE,
             sounds |-> [defined |-> TRUE, success |-> cloneSoundSource(q.sounds.success),
                         failure |-> cloneSoundSource(q.sounds.failure)]]

\* buildSoundPreferences(): undefined, or a new object holding enable_sound and
\* clones of the two slots. shared tells whether the sounds of the returned
\* object are the configuration's own sounds object
buildSoundPreferences(quick_action) ==
    LET q == ensureSoundSlots(quick_action)
    IN IF ~quick_action.defined \/ ~q.sounds.defined THEN NoPreferences
       ELSE [defined |-> TRUE,
             enable_sound |-> IF q.enable_sound = "undefined" THEN "true" ELSE q.enable_sound,
             shared |-> FALSE,
             sounds |-> [defined |-> TRUE, success |-> cloneSoundSource(q.sounds.success),
                         failure |-> cloneSoundSource(q.sounds.failure)]]

\* what the holder of preferences reads from it while the configuration is quick_action
ReadPreferences(preferences, quick_action) ==
    IF preferences.defined /\ preferences.shared
    THEN [preferences EXCEPT
            !.sounds = [defined |-> TRUE,
                        success |-> cloneSoundSource(quick_action.sounds.success),
                        failure |-> cloneSoundSource(quick_action.sounds.failure)]]
    ELSE preferences

NoPreview == [pc |-> "idle", preferences |-> NoPreferences, sent |-> NoPreferences,
              hadQuickAction |-> FALSE]

\* the quick_action values the sound settings start from: the fields the sound
\* settings never read are fixed
SoundQuickActions ==
    {q \in QuickActions :
        q.defined => q.quick_action_game = "none" /\ q.enable_notification = "true"}

\* the settings page after load_config(): refreshConfig() has settled and
\* ensureQuickActionDefaults() has run once
InitSounds ==
    \E q \in SoundQuickActions :
        settingsPage = [quick_action |-> ensureQuickActionDefaults(q), calls |-> 1,
                        ops |-> <<>>, preview |-> NoPreview, choosing |-> "none"]

\* successSoundMode = mode / failureSoundMode = mode
SetSoundMode(effect, mode) ==
    /\ Len(settingsPage.ops) < MaxEdits
    /\ LET q == ensureSoundSlots(settingsPage.quick_action)
       IN settingsPage' =
             [settingsPage EXCEPT
                !.quick_action = IF ~q.sounds.defined THEN q
                                 ELSE [q EXCEPT !.sounds[effect] = setSoundMode(@, mode)],
                !.ops = Append(@, [effect |-> effect, op |-> "mode", value |-> mode])]
    /\ UNCHANGED <<loadingVars, notifVars, configVars, rc, backupPage, addGame, app>>

\* successSoundPath = value / failureSoundPath = value
SetSoundPath(effect, value) ==
    /\ Len(settingsPage.ops) < MaxEdits
    /\ LET q == ensureSoundSlots(settingsPage.quick_action)
       IN settingsPage' =
             [settingsPage EXCEPT
                !.quick_action = IF ~q.sounds.defined THEN q
                                 ELSE [q EXCEPT !.sounds[effect] = [kind |-> "file", path |-> value]],
                !.ops = Append(@, [effect |-> effect, op |-> "path", value |-> value])]
    /\ UNCHANGED <<loadingVars, notifVars, configVars, rc, backupPage, addGame, app>>

\* the ElSwitch bound to config.quick_action.enable_sound
ToggleEnableSound ==
    /\ settingsPage.quick_action.defined
    /\ settingsPage' = [settingsPage EXCEPT
                          !.quick_action.enable_sound = IF @ = "true" THEN "false" ELSE "true"]
    /\ UNCHANGED <<loadingVars, notifVars, configVars, rc, backupPage, addGame, app>>

\* togglePreview(effect) up to its await (or to its return when there are no preferences)
TogglePreview ==
    /\ settingsPage.preview.pc = "idle"
    /\ LET preferences == buildSoundPreferences(settingsPage.quick_action)
       IN settingsPage' =
             [settingsPage EXCEPT
                !.quick_action = ensureSoundSlots(@),
                !.preview = [pc |-> IF preferences.defined THEN "awaiting" ELSE "done",
                             preferences |-> preferences,
                             sent |-> ReadPreferences(preferences, ensureSoundSlots(settingsPage.quick_action)),
                             hadQuickAction |-> settingsPage.quick_action.defined]]
    /\ UNCHANGED <<loadingVars, notifVars, configVars, rc, backupPage, addGame, app>>

\* commands.toggleQuickActionSoundPreview settles
PreviewReply(kind) ==
    /\ settingsPage.preview.pc = "awaiting"
    /\ kind \in {"ok", "throw"}
    /\ settingsPage' = [settingsPage EXCEPT !.preview.pc = "done"]
    /\ IF kind = "ok" THEN UNCHANGED notifVars ELSE showError("error.preview_sound_failed")
    /\ UNCHANGED <<loadingVars, configVars, rc, backupPage, addGame, app>>

\* chooseSoundFile(target) up to its await
ChooseSoundFile(target) ==
    /\ settingsPage.choosing = "none"
    /\ settingsPage' = [settingsPage EXCEPT !.choosing = target]
    /\ UNCHANGED <<loadingVars, notifVars, configVars, rc, backupPage, addGame, app>>

\* commands.chooseQuickActionSoundFile() settles: an ok result carries the path
ChooseSoundFileReply(kind, file_path) ==
    /\ settingsPage.choosing # "none"
    /\ kind \in ReplyKinds
    /\ kind = "throw" => nextId <= MaxNotifs
    /\ LET q == ensureSoundSlots(settingsPage.quick_action)
       IN settingsPage' =
             [settingsPage EXCEPT
                !.choosing = "none",
                !.quick_action =
                    IF kind = "throw" THEN @
                    ELSE IF q.sounds.defined /\ kind = "ok"
                    THEN [q EXCEPT !.sounds[settingsPage.choosing] =
                                       [kind |-> "file", path |-> file_path]]
                    ELSE q]
    /\ IF kind = "throw" THEN showError("error.choose_sound_file_error") ELSE UNCHANGED notifVars
    /\ UNCHANGED <<loadingVars, configVars, rc, backupPage, addGame, app>>

\* the mode and path setters of the two sounds
NextSounds ==
    \/ \E e \in Effects, m \in SoundModes : SetSoundMode(e, m)
    \/ \E e \in Effects, v \in InputPaths : SetSoundPath(e, v)

\* a preview request against the changes the page makes while it is in flight
NextPreview ==
    \/ ToggleEnableSound
    \/ TogglePreview
    \/ \E k \in {"ok", "throw"} : PreviewReply(k)
    \/ \E e \in Effects : ChooseSoundFile(e)
    \/ \E k \in ReplyKinds, f \in ChosenPaths : ChooseSoundFileReply(k, f)

\* =====================================================================
\* Backup and restore (pages/Management/[name].vue)
\* =====================================================================
Requests == 1..MaxRequests
NoBlock == "none"
NoRequest == [kind |-> "none", pc |-> "idle", reply |-> "none", outcome |-> "none",
              busyAtStart |-> FALSE]

\* the page is not open
BackupUnmounted == [open |-> FALSE]

\* the add game page is not open
AddGameUnmounted == [open |-> FALSE]

\* App.vue shows no dialog and no navigation is in progress
AppIdle == [pc |-> "idle"]

\* the backup and add game pages are closed, the application shell is idle
OtherPagesClosed ==
    backupPage = BackupUnmounted /\ addGame = AddGameUnmounted /\ app = AppIdle

\* the requests whose createSnapshot / restoreSnapshot call has not settled
InFlightRequests(req) == {r \in DOMAIN req : req[r].pc \in {"awaiting", "replied"}}

\* several show* calls in a row within one handler: after the first item the
\* queue is being processed, so the others are only appended
addAllToQueue(items) ==
    LET ns == [i \in 1..Len(items) |->
                  [type |-> items[i][1], options |-> items[i][2], id |-> nextId + i - 1]]
        first == Append(messageQueue, ns[1])
    IN /\ nextId' = nextId + Len(items)
       /\ enqueued' = enqueued \o
              [i \in 1..Len(items) |->
                  [id |-> ns[i].id, type |-> ns[i].type, message |-> ns[i].options.message]]
       /\ IF isProcessing
          THEN /\ messageQueue' = messageQueue \o ns
               /\ UNCHANGED <<isProcessing, workers, rendered, activeNotifications>>
          ELSE /\ isProcessing' = TRUE
               /\ messageQueue' = shift(first).rest \o Tail(ns)
               /\ show(shift(first).item)
               /\ workers' = workers + 1
       /\ UNCHANGED <<handleClosed, closedPending, expired>>

Note(type, message) == <<type, MkOptions(message, Undefined, UndefinedDuration, FALSE)>>

backupBlockedMessageIgnoreApply(time_limit, backup_limit, apply_limit) ==
    IF ~time_limit THEN "manage.save_too_fast_error"
    ELSE IF ~backup_limit THEN "manage.last_backup_unfinished_error"
    ELSE NoBlock

\* the three checks at the head of send_save_to_background: the error shown, or NoBlock
backupBlockedMessage(time_limit, backup_limit, apply_limit) ==
    IF ~time_limit THEN "manage.save_too_fast_error"
    ELSE IF ~backup_limit THEN "manage.last_backup_unfinished_error"
    ELSE IF ~apply_limit THEN "manage.last_overwrite_unfinished_error"
    ELSE NoBlock

\* the two checks at the head of apply_save
applyBlockedMessage(backup_limit, apply_limit) ==
    IF ~apply_limit THEN "manage.last_overwrite_unfinished_error"
    ELSE IF ~backup_limit THEN "manage.last_backup_unfinished_error"
    ELSE NoBlock

InitBackup ==
    backupPage = [backup_button_time_limit |-> TRUE,
                  backup_button_backup_limit |-> TRUE,
                  apply_button_apply_limit |-> TRUE,
                  req |-> [r \in Requests |-> NoRequest],
                  timers |-> 0,
                  info |-> [inflight |-> 0, failed |-> 0, rejected |-> 0]]

\* send_save_to_background() up to `await commands.createSnapshot(...)` (or to its return)
SendSaveToBackground ==
    LET r == Cardinality({x \in Requests : backupPage.req[x].pc # "idle"}) + 1
        blocked == backupBlockedMessage(backupPage.backup_button_time_limit,
                                        backupPage.backup_button_backup_limit,
                                        backupPage.apply_button_apply_limit)
        busy == InFlightRequests(backupPage.req) # {}
    IN /\ r \in Requests
       /\ IF blocked # NoBlock
          THEN /\ addAllToQueue(<<Note("info", "manage.wait_for_prompt_hint"), Note("error", blocked)>>)
               /\ backupPage' = [backupPage EXCEPT
                     !.req[r] = [kind |-> "backup", pc |-> "blocked", reply |-> "none",
                                 outcome |-> "resolved", busyAtStart |-> busy]]
               /\ UNCHANGED messageStack
          ELSE /\ addAllToQueue(<<Note("info", "manage.wait_for_prompt_hint")>>)
               /\ backupPage' = [backupPage EXCEPT
                     !.backup_button_time_limit = FALSE,
                     !.backup_button_backup_limit = FALSE,
                     !.req[r] = [kind |-> "backup", pc |-> "awaiting", reply |-> "none",
                                 outcome |-> "none", busyAtStart |-> busy]]
               /\ messageStack' = startLoading(messageStack, "manage.creating_backup")
       /\ UNCHANGED <<wl, startOrder, configVars, rc, settingsPage, addGame, app>>

\* apply_save(date) up to `await commands.restoreSnapshot(...)` (or to its return)
ApplySave ==
    LET r == Cardinality({x \in Requests : backupPage.req[x].pc # "idle"}) + 1
        blocked == applyBlockedMessage(backupPage.backup_button_backup_limit,
                                       backupPage.apply_button_apply_limit)
        busy == InFlightRequests(backupPage.req) # {}
    IN /\ r \in Requests
       /\ IF blocked # NoBlock
          THEN /\ addAllToQueue(<<Note("info", "manage.wait_for_prompt_hint"), Note("error", blocked)>>)
               /\ backupPage' = [backupPage EXCEPT
                     !.req[r] = [kind |-> "restore", pc |-> "blocked", reply |-> "none",
                                 outcome |-> "resolved", busyAtStart |-> busy]]
               /\ UNCHANGED messageStack
          ELSE /\ addAllToQueue(<<Note("info", "manage.wait_for_prompt_hint")>>)
               /\ backupPage' = [backupPage EXCEPT
                     !.apply_button_apply_limit = FALSE,
                     !.req[r] = [kind |-> "restore", pc |-> "awaiting", reply |-> "none",
                                 outcome |-> "none", busyAtStart |-> busy]]
               /\ messageStack' = startLoading(messageStack, "manage.restoring_backup")
       /\ UNCHANGED <<wl, startOrder, configVars, rc, settingsPage, addGame, app>>

\* commands.createSnapshot / commands.restoreSnapshot settles
SnapshotReply(r, kind) ==
    /\ backupPage.req[r].pc = "awaiting"
    /\ kind \in ReplyKinds
    /\ backupPage' = [backupPage EXCEPT !.req[r].pc = "replied", !.req[r].reply = kind]
    /\ UNCHANGED <<loadingVars, notifVars, configVars, rc, settingsPage, addGame, app>>

\* the rest of the operation handed to withLoading, withLoading's finally, and
\* the rest of send_save_to_background / apply_save
SnapshotSettle(r) ==
    LET q == backupPage.req[r]
        op == [kind |-> IF q.reply = "throw" THEN "rejected" ELSE "resolved", value |-> "v"]
        awaited == withLoadingResult(op)
    IN /\ q.pc = "replied"
       /\ messageStack' = stopLoading(messageStack)
       /\ CASE q.reply = "ok" ->
                 addToQueue("success", MkOptions(IF q.kind = "backup" THEN "manage.backup_success"
                                                 ELSE "manage.recover_success",
                                                 Undefined, UndefinedDuration, FALSE))
            [] q.reply = "error" ->
                 showError(IF q.kind = "backup" THEN "backend error" ELSE "manage.recover_failed")
            [] q.reply = "throw" -> UNCHANGED notifVars
       /\ IF awaited.kind = "rejected"
          THEN backupPage' = [backupPage EXCEPT !.req[r].pc = "done", !.req[r].outcome = "rejected"]
          ELSE backupPage' = [backupPage EXCEPT
                  !.req[r].pc = "done",
                  !.req[r].outcome = "resolved",
                  !.backup_button_backup_limit = IF q.kind = "backup" THEN TRUE ELSE @,
                  !.apply_button_apply_limit = IF q.kind = "restore" THEN TRUE ELSE @,
                  !.timers = IF q.kind = "backup" THEN @ + 1 ELSE @,
                  !.info.inflight = @ + 1]
       /\ UNCHANGED <<wl, startOrder, configVars, rc, settingsPage, addGame, app>>

\* setTimeout(() => { backup_button_time_limit = true }, 1000) fires
CooldownElapsed ==
    /\ backupPage.timers > 0
    /\ backupPage' = [backupPage EXCEPT !.timers = @ - 1, !.backup_button_time_limit = TRUE]
    /\ UNCHANGED <<loadingVars, notifVars, configVars, rc, settingsPage, addGame, app>>

\* commands.getGameSnapshotsInfo settles: the rest of refresh_backups_info
SnapshotsInfoReply(kind) ==
    /\ backupPage.info.inflight > 0
    /\ kind \in ReplyKinds
    /\ backupPage' = [backupPage EXCEPT
          !.info.inflight = @ - 1,
          !.info.failed = IF kind = "ok" THEN @ ELSE @ + 1,
          !.info.rejected = IF kind = "throw" THEN @ + 1 ELSE @]
    /\ IF kind = "error" THEN showError("backend error") ELSE UNCHANGED notifVars
    /\ UNCHANGED <<loadingVars, configVars, rc, settingsPage, addGame, app>>

NextBackup ==
    \/ SendSaveToBackground
    \/ ApplySave
    \/ \E r \in Requests, k \in ReplyKinds : SnapshotReply(r, k)
    \/ \E r \in Requests : SnapshotSettle(r)
    \/ CooldownElapsed
    \/ \E k \in ReplyKinds : SnapshotsInfoReply(k)

\* =====================================================================
\* Adding games (pages/AddGame.vue)
\* =====================================================================
\* The page is modelled with add_new_to_favorites off and outside edit mode.
\* games is the games list of config.value; backend is the games list of the
\* document the backend holds.  commands.addGame is a backend command: it
\* answers ok, error or throws, and an ok answer means the game was added.
Adds == 1..MaxAdds
GameNames == {"Foo", "foo", "Bar"}
NameInputs == {"", "Foo", " foo ", "Bar", "A?"}
NoAdd == [op |-> "none", name |-> "", pc |-> "idle", reply |-> "none"]

\* String.prototype.trim() on the names the user can type
trimName(input) == IF input = " foo " THEN "foo" ELSE input

\* String.prototype.toLowerCase() on the names
toLowerCase(name) == IF name = "Foo" THEN "foo" ELSE IF name = "Bar" THEN "bar" ELSE name

check_name_valid(name) == name # "A?"

\* config.value?.games.find(x => x.name.toLowerCase() == game_name.value.toLowerCase())
findDuplicate(games, name) ==
    \E i \in 1..Len(games) : toLowerCase(games[i]) = toLowerCase(name)

FirstIdleAdd == CHOOSE r \in Adds : addGame.req[r].pc = "idle" /\
                    \A q \in Adds : addGame.req[q].pc = "idle" => r <= q

AddGameUnchanged ==
    UNCHANGED <<messageStack, wl, startOrder, configVars, rc, settingsPage, backupPage, app>>

\* the page is open; the configuration is loaded and equals the backend's
InitAddGame ==
    \E gs \in {<<>>, <<"Foo">>} :
        addGame = [open |-> TRUE, games |-> gs, backend |-> gs,
                   req |-> [r \in Adds |-> NoAdd]]

\* save(), up to commands.addGame
Save(input, has_save_paths) ==
    /\ addGame.open
    /\ \E r \in Adds : addGame.req[r].pc = "idle"
    /\ LET r == FirstIdleAdd
           game_name == trimName(input)
           message ==
               IF game_name = "" \/ ~has_save_paths THEN "addgame.no_name_error"
               ELSE IF ~check_name_valid(game_name) THEN "addgame.invalid_name_error"
               ELSE IF findDuplicate(addGame.games, game_name)
                    THEN "addgame.duplicated_name_error"
               ELSE "none"
       IN IF message # "none"
          THEN /\ addAllToQueue(<<Note("error", message)>>)
               /\ addGame' = [addGame EXCEPT !.req[r] =
                      [op |-> "save", name |-> game_name, pc |-> "refused", reply |-> "none"]]
          ELSE /\ addGame' = [addGame EXCEPT !.req[r] =
                      [op |-> "save", name |-> game_name, pc |-> "awaiting", reply |-> "none"]]
               /\ UNCHANGED notifVars
    /\ AddGameUnchanged

\* quickAdd(row), up to its first backend command
QuickAdd(name, install_path) ==
    /\ addGame.open
    /\ \E r \in Adds : addGame.req[r].pc = "idle"
    /\ addGame' = [addGame EXCEPT !.req[FirstIdleAdd] =
           [op |-> "quickAdd", name |-> name,
            pc |-> IF install_path THEN "units" ELSE "awaiting", reply |-> "none"]]
    /\ UNCHANGED notifVars
    /\ AddGameUnchanged

\* commands.generateSaveUnitsForGame answers and quickAdd goes on
SaveUnitsReply(r, kind) ==
    /\ addGame.open
    /\ addGame.req[r].pc = "units"
    /\ IF kind = "ok"
       THEN /\ addGame' = [addGame EXCEPT !.req[r].pc = "awaiting"]
            /\ UNCHANGED notifVars
       ELSE /\ addAllToQueue(<<Note("error",
                   IF kind = "error" THEN "backend error" ELSE "error.add_game_failed")>>)
            /\ addGame' = [addGame EXCEPT !.req[r].pc = "done", !.req[r].reply = kind]
    /\ AddGameUnchanged

\* the backend answers commands.addGame
AddGameReply(r, kind) ==
    /\ addGame.open
    /\ addGame.req[r].pc = "awaiting"
    /\ addGame' = [addGame EXCEPT
           !.req[r].pc = "replied", !.req[r].reply = kind,
           !.backend = IF kind = "ok" THEN Append(@, addGame.req[r].name) ELSE @]
    /\ UNCHANGED notifVars
    /\ AddGameUnchanged

\* save() and quickAdd() after commands.addGame, up to refreshConfig()
AddGameSettle(r) ==
    /\ addGame.open
    /\ addGame.req[r].pc = "replied"
    /\ LET q == addGame.req[r]
           failed == q.reply = "throw" \/ (q.op = "quickAdd" /\ q.reply = "error")
           message == IF q.reply = "throw" THEN "error.add_game_failed"
                      ELSE IF failed THEN "backend error"
                      ELSE "addgame.add_game_success"
       IN /\ addAllToQueue(<<Note(IF failed THEN "error" ELSE "success", message)>>)
          /\ addGame' = [addGame EXCEPT !.req[r].pc = IF failed THEN "done" ELSE "refreshing"]
    /\ AddGameUnchanged

\* the refreshConfig() that ends save() and quickAdd(): the backend's document
\* on success, the default document (no games) and an error otherwise
RefreshAfterAdd(r, kind) ==
    /\ addGame.open
    /\ addGame.req[r].pc = "refreshing"
    /\ IF kind = "ok"
       THEN /\ addGame' = [addGame EXCEPT !.req[r].pc = "done", !.games = addGame.backend]
            /\ UNCHANGED notifVars
       ELSE /\ addAllToQueue(<<Note("error", "error.config_load_failed")>>)
            /\ addGame' = [addGame EXCEPT !.req[r].pc = "done", !.games = <<>>]
    /\ AddGameUnchanged

NextAddGame ==
    \/ \E input \in NameInputs, has_save_paths \in BOOLEAN : Save(input, has_save_paths)
    \/ \E name \in GameNames, install_path \in BOOLEAN : QuickAdd(name, install_path)
    \/ \E r \in Adds, k \in ReplyKinds : SaveUnitsReply(r, k)
    \/ \E r \in Adds, k \in ReplyKinds : AddGameReply(r, k)
    \/ \E r \in Adds : AddGameSettle(r)
    \/ \E r \in Adds, k \in ReplyKinds : RefreshAfterAdd(r, k)

\* =====================================================================
\* Importing paths from another device (App.vue handleDeviceSetup,
\* Settings.vue importFromDevice)
\* =====================================================================
NoImport == "undefined"
OtherDevices == Devices \ {CurrentId}

\* if (savePath.paths) { if (savePath.paths[deviceId]) {
\*     savePath.paths[currentDeviceId] = savePath.paths[deviceId] } }
importSaveUnit(unit, deviceId, currentDeviceId) ==
    IF unit.paths.defined /\ Truthy(unit.paths.map[deviceId])
    THEN [unit EXCEPT !.paths.map[currentDeviceId] = unit.paths.map[deviceId]]
    ELSE unit

\* if (game.game_paths && game.game_paths[deviceId]) {
\*     game.game_paths[currentDeviceId] = game.game_paths[deviceId] }
importGamePaths(game_paths, deviceId, currentDeviceId) ==
    IF game_paths.defined /\ Truthy(game_paths.map[deviceId])
    THEN [game_paths EXCEPT !.map[currentDeviceId] = game_paths.map[deviceId]]
    ELSE game_paths

\* the body of `for (const game of config.value.games)`, the same in both handlers
importPaths(game, deviceId, currentDeviceId) ==
    LET units == game.save_paths.units
    IN [save_paths |-> [game.save_paths EXCEPT
                           !.units = [i \in 1..Len(units) |->
                                         importSaveUnit(units[i], deviceId, currentDeviceId)]],
        game_paths |-> importGamePaths(game.game_paths, deviceId, currentDeviceId)]

\* the number of the saveConfig call that starts now
NextSaveCall == Cardinality(Started(save)) + 1

\* saveConfig() up to its await, called by a handler
saveConfigStart ==
    /\ NextSaveCall \in SaveCalls
    /\ save' = [save EXCEPT ![NextSaveCall].pc = "awaiting", ![NextSaveCall].arg = ConfigValue]

ImportStoreUnchanged ==
    UNCHANGED <<race, isTauriEnv, heap, configRef, configIsLoading, backendDoc, refresh,
                listener, eventLog, errorLog, loadingVars, rc, backupPage, addGame>>

\* the device setup dialog is shown for the current device, and the settings
\* page lists the other devices; both work on the games of config.value (a
\* game with at most one save unit: the units are treated one by one)
InitImport ==
    \E g \in {x \in Games : Len(x.save_paths.units) <= 1} :
        /\ app = [pc |-> "dialog", game |-> g, game0 |-> g, registered |-> FALSE,
                  source |-> NoImport, call |-> 0]
        /\ settingsPage = [calls |-> 0, pc |-> "idle", game |-> g, game0 |-> g,
                           source |-> NoImport, call |-> 0]

\* handleDeviceSetup(deviceName, importFromDeviceId) up to `await saveConfig()`
HandleDeviceSetup(importFromDeviceId) ==
    /\ app.pc = "dialog"
    /\ saveConfigStart
    /\ app' = [app EXCEPT
           !.pc = "saving", !.registered = TRUE, !.source = importFromDeviceId,
           !.call = NextSaveCall,
           !.game = IF importFromDeviceId # NoImport
                    THEN importPaths(@, importFromDeviceId, CurrentId) ELSE @]
    /\ IF importFromDeviceId # NoImport
       THEN addAllToQueue(<<Note("success", "device_setup.import_success")>>)
       ELSE UNCHANGED notifVars
    /\ UNCHANGED settingsPage
    /\ ImportStoreUnchanged

\* handleDeviceSetup after `await saveConfig()`
DeviceSetupSaved ==
    /\ app.pc = "saving"
    /\ save[app.call].pc = "done"
    /\ app' = [app EXCEPT !.pc = "done"]
    /\ UNCHANGED <<save, notifVars, settingsPage>>
    /\ ImportStoreUnchanged

\* importFromDevice(deviceId) up to `await ElMessageBox.confirm(...)`
ImportFromDevice(deviceId) ==
    /\ settingsPage.pc = "idle"
    /\ settingsPage' = [settingsPage EXCEPT !.pc = "confirm", !.source = deviceId]
    /\ UNCHANGED <<save, notifVars, app>>
    /\ ImportStoreUnchanged

\* ElMessageBox.confirm settles: importFromDevice up to `await saveConfig()`,
\* or its catch block when the dialog was dismissed
ImportConfirmAnswer(answer) ==
    /\ settingsPage.pc = "confirm"
    /\ IF answer # "confirm"
       THEN /\ addAllToQueue(<<Note("info", "settings.operation_canceled")>>)
            /\ settingsPage' = [settingsPage EXCEPT !.pc = "canceled"]
            /\ UNCHANGED save
       ELSE IF CurrentId = settingsPage.source
       THEN /\ addAllToQueue(<<Note("error", "error.import_paths_failed")>>)
            /\ settingsPage' = [settingsPage EXCEPT !.pc = "failed"]
            /\ UNCHANGED save
       ELSE /\ saveConfigStart
            /\ settingsPage' = [settingsPage EXCEPT
                   !.pc = "saving", !.call = NextSaveCall,
                   !.game = importPaths(@, settingsPage.source, CurrentId)]
            /\ UNCHANGED notifVars
    /\ UNCHANGED app
    /\ ImportStoreUnchanged

\* importFromDevice after `await saveConfig()`
ImportSaved ==
    /\ settingsPage.pc = "saving"
    /\ save[settingsPage.call].pc = "done"
    /\ addAllToQueue(<<Note("success", "settings.import_paths_success")>>)
    /\ settingsPage' = [settingsPage EXCEPT !.pc = "done"]
    /\ UNCHANGED <<save, app>>
    /\ ImportStoreUnchanged

NextImport ==
    \/ \E d \in OtherDevices \cup {NoImport} : HandleDeviceSetup(d)
    \/ DeviceSetupSaved
    \/ \E d \in OtherDevices : ImportFromDevice(d)
    \/ \E a \in {"confirm", "cancel"} : ImportConfirmAnswer(a)
    \/ ImportSaved
    \/ \E c \in SaveCalls, k \in ReplyKinds : SetConfigReply(c, k)
    \/ \E c \in SaveCalls : SaveSettle(c)

\* =====================================================================
\* Operations guarded by a modal dialog (Management/[name].vue batch_delete,
\* del_cur, change_describe; Settings.vue backup_all, apply_all;
\* SyncSettings.vue upload_all, download_all)
\* =====================================================================
DialogOps == {"batch_delete", "del_cur", "change_describe", "backup_all", "apply_all",
              "upload_all", "download_all"}

\* what the prompt resolves with: inputPattern /yes/ lets "yes" and any text
\* containing it through; change_describe has no pattern
PromptValues == {"yes", "oh yes"}

\* the operations that compare the text with 'yes' after the prompt
requiresYes(op) == op \in {"batch_delete", "del_cur"}

\* the operations that wrap their command in withLoading, and the message
loadingMessageOf(op) ==
    CASE op = "backup_all" -> "settings.backup_all_in_progress"
      [] op = "apply_all" -> "settings.apply_all_in_progress"
      [] op = "upload_all" -> "sync_settings.uploading_all"
      [] op = "download_all" -> "sync_settings.downloading_all"
      [] OTHER -> NoMsg

\* the catch block that runs when the dialog rejects with 'cancel'
canceledNotes(op) ==
    CASE op = "batch_delete" -> <<Note("error", "manage.operation_canceled")>>
      [] op \in {"del_cur", "change_describe"} -> <<Note("info", "manage.operation_canceled")>>
      [] op \in {"backup_all", "apply_all"} -> <<Note("info", "settings.operation_canceled")>>
      [] op \in {"upload_all", "download_all"} -> <<Note("info", "sync_settings.canceled")>>

\* the notifications after the backend command of op has settled with kind
settledNotes(op, kind) ==
    CASE op = "batch_delete" ->
             IF kind = "throw" THEN <<Note("error", "error.delete_snapshot_failed")>>
             ELSE <<Note("success", "manage.delete_success")>>
      [] op = "del_cur" ->
             IF kind = "throw" THEN <<Note("info", "manage.operation_canceled")>>
             ELSE IF kind = "error" THEN <<Note("error", "error.delete_game_failed")>>
             ELSE <<>>
      [] op = "change_describe" ->
             IF kind = "throw" THEN <<Note("info", "manage.operation_canceled")>>
             ELSE IF kind = "error"
                  THEN <<Note("error", "manage.change_description_failed"),
                         Note("success", "manage.change_description_success")>>
             ELSE <<Note("success", "manage.change_description_success")>>
      [] op = "backup_all" ->
             IF kind = "throw" THEN <<Note("error", "settings.failed")>>
             ELSE <<Note("success", "settings.success")>>
      [] op = "apply_all" -> <<>>
      [] op = "upload_all" ->
             IF kind = "throw" THEN <<Note("info", "sync_settings.canceled")>>
             ELSE IF kind = "error" THEN <<Note("error", "sync_settings.upload_failed")>>
             ELSE <<Note("success", "sync_settings.upload_success")>>
      [] op = "download_all" ->
             IF kind = "throw" THEN <<Note("info", "sync_settings.canceled")>>
             ELSE IF kind = "error" THEN <<Note("error", "sync_settings.download_failed")>>
             ELSE <<Note("success", "sync_settings.download_success")>>

notify(notes) == IF notes = <<>> THEN UNCHANGED notifVars ELSE addAllToQueue(notes)

DialogUnchanged ==
    UNCHANGED <<wl, startOrder, configVars, rc, settingsPage, backupPage, addGame>>

\* the dialogs opened so far, and the notifications of the operation in hand
dialogsOpened == IF app.pc = "idle" THEN 0 ELSE app.opened

notesOfOperation == {enqueued[i].type : i \in (app.mark + 1)..Len(enqueued)}

\* the handler of op up to `await ElMessageBox.prompt(...)`; the page takes
\* the next operation once the handler in hand has finished
OpenDialog(op) ==
    /\ app.pc \in {"idle", "done", "canceled", "invalid"}
    /\ dialogsOpened < MaxDialogs
    /\ app' = [pc |-> "dialog", op |-> op, calls |-> 0, opened |-> dialogsOpened + 1,
               mark |-> Len(enqueued)]
    /\ UNCHANGED <<messageStack, notifVars>>
    /\ DialogUnchanged

\* the dialog is dismissed: ElMessageBox rejects and the catch block runs
DialogDismissed ==
    /\ app.pc = "dialog"
    /\ notify(canceledNotes(app.op))
    /\ app' = [app EXCEPT !.pc = "canceled"]
    /\ UNCHANGED messageStack
    /\ DialogUnchanged

\* the dialog is confirmed with the text value: the handler up to its backend
\* command (batch_delete with one selected snapshot)
DialogConfirmed(value) ==
    /\ app.pc = "dialog"
    /\ IF requiresYes(app.op) /\ value # "yes"
       THEN /\ notify(<<Note("info", "manage.invalid_input_error")>>)
            /\ app' = [app EXCEPT !.pc = "invalid"]
            /\ UNCHANGED messageStack
       ELSE /\ app' = [app EXCEPT !.pc = "calling", !.calls = @ + 1]
            /\ messageStack' = IF loadingMessageOf(app.op) # NoMsg
                               THEN startLoading(messageStack, loadingMessageOf(app.op))
                               ELSE messageStack
            /\ UNCHANGED notifVars
    /\ DialogUnchanged

\* the backend command settles and the handler runs to its end (del_cur: to
\* its `await refreshConfig()`)
DialogCommandReply(kind) ==
    /\ app.pc = "calling"
    /\ notify(settledNotes(app.op, kind))
    /\ app' = [app EXCEPT !.pc = "done"]
    /\ messageStack' = IF loadingMessageOf(app.op) # NoMsg
                       THEN stopLoading(messageStack) ELSE messageStack
    /\ DialogUnchanged

NextDialogs ==
    \/ \E op \in DialogOps : OpenDialog(op)
    \/ DialogDismissed
    \/ \E v \in PromptValues : DialogConfirmed(v)
    \/ \E k \in ReplyKinds : DialogCommandReply(k)
    \/ DelayElapsed

\* =====================================================================
\* Automatic scan of the AddGame page (AddGame.vue: subscribeScanProgress,
\* startScan)
\* =====================================================================
Scans == 1..MaxScans

NoListener == 0

\* the scans whose scanGames command is in flight
ScansInFlight == {s \in Scans : addGame.scan[s] = "scanning"}

\* the scans that have returned from startScan or were never started
ScansSettled == \A s \in Scans : addGame.scan[s] \in {"idle", "returned", "done"}

ScanUnchanged ==
    UNCHANGED <<loadingVars, configVars, rc, settingsPage, backupPage, app>>

\* scanning = ref(false), unlistenFn = null, no listener registered
InitScan ==
    addGame = [scanning |-> FALSE, unlistenFn |-> NoListener, registered |-> {},
               scan |-> [s \in Scans |-> "idle"]]

\* startScan up to `await subscribeScanProgress()`, which awaits
\* events.scanProgress.listen
StartScan(s) ==
    /\ addGame.scan[s] = "idle"
    /\ \A t \in Scans : t < s => addGame.scan[t] # "idle"
    /\ addGame' = [addGame EXCEPT !.scan[s] = IF addGame.scanning THEN "returned"
                                             ELSE "subscribing"]
    /\ UNCHANGED notifVars
    /\ ScanUnchanged

\* listen settles (ok: the listener of this call is registered and stored in
\* unlistenFn; throw: logged), then startScan sets scanning and calls scanGames
ScanSubscribed(s, kind) ==
    /\ addGame.scan[s] = "subscribing"
    /\ addGame' = [addGame EXCEPT
                      !.registered = IF kind = "ok" THEN @ \cup {s} ELSE @,
                      !.unlistenFn = IF kind = "ok" THEN s ELSE @,
                      !.scanning = TRUE,
                      !.scan[s] = "scanning"]
    /\ UNCHANGED notifVars
    /\ ScanUnchanged

\* scanGames settles: the result or an error notification, then the finally
\* block clears scanning and calls the stored unlisten function
ScanGamesReply(s, kind) ==
    /\ addGame.scan[s] = "scanning"
    /\ CASE kind = "ok" -> UNCHANGED notifVars
         [] kind = "error" -> addAllToQueue(<<Note("error", "res.error")>>)
         [] kind = "throw" -> addAllToQueue(<<Note("error", "error.unexpected_error")>>)
    /\ addGame' = [addGame EXCEPT
                      !.scanning = FALSE,
                      !.registered = @ \ {addGame.unlistenFn},
                      !.unlistenFn = NoListener,
                      !.scan[s] = "done"]
    /\ ScanUnchanged

NextScan ==
    \/ \E s \in Scans : StartScan(s)
    \/ \E s \in Scans, k \in {"ok", "throw"} : ScanSubscribed(s, k)
    \/ \E s \in Scans, k \in ReplyKinds : ScanGamesReply(s, k)
    \/ DelayElapsed

\* =====================================================================
\* The unsaved-hotkeys flag of the settings page (Settings.vue:
\* skipQuickActionChange, load_config, reset_settings, the watcher of
\* config.value.quick_action)
\* =====================================================================
\* The documents carry complete quick_action settings, so the
\* ensureQuickActionDefaults() calls of the watcher and of load_config change
\* nothing here.
HotkeysUnmounted == [mounted |-> FALSE]

\* the callback of watch(() => config.value.quick_action, ..., { deep: true }),
\* run for a change of the cause given
quickActionWatcher(page, cause) ==
    IF page.skipQuickActionChange
    THEN [page EXCEPT !.skipQuickActionChange = FALSE, !.skipped = @ \cup {cause}]
    ELSE [page EXCEPT !.hotkeysChanged = TRUE, !.setBy = @ \cup {cause}]

HotkeysOtherPages == UNCHANGED <<rc, backupPage, addGame, app>>

\* the setup of the page: let skipQuickActionChange = true, hotkeysChanged =
\* ref(false), the watcher registered; onMounted only fetches the device
OpenSettings ==
    /\ UiReady
    /\ ~settingsPage.mounted
    /\ settingsPage' = [mounted |-> TRUE, skipQuickActionChange |-> TRUE, hotkeysChanged |-> FALSE,
                        edits |-> 0, reset |-> "idle", skipped |-> {}, setBy |-> {}]
    /\ UNCHANGED <<loadingVars, notifVars, configVars>>
    /\ HotkeysOtherPages

\* the user changes a switch, a sound or a hotkey of config.quick_action
\* through its v-model; the watcher runs in the next flush
EditQuickAction ==
    /\ settingsPage.mounted
    /\ settingsPage.edits < MaxEdits
    /\ settingsPage' = [quickActionWatcher(settingsPage, "user") EXCEPT !.edits = @ + 1]
    /\ UNCHANGED <<loadingVars, notifVars, configVars>>
    /\ HotkeysOtherPages

\* refreshConfig settles while the page may be open: an assignment of another
\* object to config.value makes the watcher run
HotkeysRefreshSettle(c) ==
    /\ refreshConfigSettle(c)
    /\ settingsPage' = IF settingsPage.mounted /\ (refresh[c].reply.kind = "ok" \/ configRef # "default")
                       THEN quickActionWatcher(settingsPage, "refresh")
                       ELSE settingsPage
    /\ HotkeysOtherPages

\* reset_settings up to `await commands.resetSettings()`
ResetSettings ==
    /\ settingsPage.mounted
    /\ settingsPage.reset = "idle"
    /\ settingsPage' = [settingsPage EXCEPT !.reset = "calling"]
    /\ UNCHANGED <<loadingVars, notifVars, configVars>>
    /\ HotkeysOtherPages

\* resetSettings settles: showSuccess and load_config() up to `await
\* refreshConfig()`, or the catch block
ResetSettingsReply(kind) ==
    /\ settingsPage.mounted
    /\ settingsPage.reset = "calling"
    /\ IF kind = "throw"
       THEN /\ addAllToQueue(<<Note("error", "error.reset_settings_failed")>>)
            /\ settingsPage' = [settingsPage EXCEPT !.reset = "done"]
            /\ UNCHANGED <<configIsLoading, refresh>>
       ELSE /\ addAllToQueue(<<Note("success", "settings.reset_success")>>)
            /\ settingsPage' = [settingsPage EXCEPT !.reset = "done", !.skipQuickActionChange = TRUE]
            /\ refreshConfigStart
    /\ UNCHANGED <<race, isTauriEnv, heap, configRef, backendDoc, save, listener, eventLog, errorLog>>
    /\ UNCHANGED loadingVars
    /\ HotkeysOtherPages

NextHotkeys ==
    \/ ListenRegistered
    \/ ListenFailed
    \/ \E p \in Payloads : QuickActionCompleted(p)
    \/ \E c \in RefreshCalls, k \in ReplyKinds : GetLocalConfigReply(c, k)
    \/ \E c \in RefreshCalls : HotkeysRefreshSettle(c)
    \/ OpenSettings
    \/ EditQuickAction
    \/ ResetSettings
    \/ \E k \in ReplyKinds : ResetSettingsReply(k)
    \/ DelayElapsed

\* =====================================================================
\* Deleting a device on the settings page (Settings.vue: fetchDeviceInfo,
\* deleteDevice)
\* =====================================================================
NoDevice == ""

\* the games the page is opened with: a launch-path mapping and at most one
\* save unit, each device's entry either missing or a path
DeviceMappings ==
    {UndefinedMapping} \cup
    {[defined |-> TRUE, map |-> m] : m \in [Devices -> {Absent, "/a/save"}]}

DeviceGames ==
    [save_paths : {[defined |-> FALSE, units |-> <<>>], [defined |-> TRUE, units |-> <<>>]} \cup
                  {[defined |-> TRUE, units |-> <<[paths |-> m]>>] : m \in DeviceMappings},
     game_paths : DeviceMappings]

\* `deviceId in mapping`
hasKey(mapping, deviceId) == mapping.defined /\ mapping.map[deviceId] # Absent

\* if (mapping && deviceId in mapping) delete mapping[deviceId]
deleteKey(mapping, deviceId) ==
    IF hasKey(mapping, deviceId) THEN [mapping EXCEPT !.map[deviceId] = Absent] ELSE mapping

deleteDevicePathsKeepUnits(game, deviceId) ==
    [save_paths |-> game.save_paths,
     game_paths |-> deleteKey(game.game_paths, deviceId)]

\* the body of `for (const game of config.value.games)` in deleteDevice
deleteDevicePaths(game, deviceId) ==
    LET units == game.save_paths.units
    IN [save_paths |-> [game.save_paths EXCEPT
                           !.units = [i \in 1..Len(units) |->
                                         [paths |-> deleteKey(units[i].paths, deviceId)]]],
        game_paths |-> deleteKey(game.game_paths, deviceId)]

NoDeletion == [outcome |-> "none"]

\* the record of a deleteDevice call that has returned or reached saveConfig
Deletion(outcome, deviceId) ==
    [outcome |-> outcome, device |-> deviceId, devices0 |-> settingsPage.devices,
     game0 |-> settingsPage.game, saves0 |-> Cardinality(Started(save)),
     note |-> Len(enqueued) + 1]

DeviceStoreUnchanged ==
    UNCHANGED <<race, isTauriEnv, heap, configRef, configIsLoading, backendDoc, refresh,
                listener, eventLog, errorLog, loadingVars, rc, backupPage, addGame, app>>

\* the page is mounted: currentDevice = { id: "", name: "" }, otherDevices = [],
\* onMounted has called fetchDeviceInfo(); config.value.devices holds the
\* current device, registered by the device setup dialog
InitDevices ==
    \E g \in DeviceGames, ds \in SUBSET Devices :
        /\ CurrentId \in ds
        /\ settingsPage = [pc |-> "fetching", currentDevice |-> NoDevice, otherDevices |-> {},
                           devices |-> ds, game |-> g, target |-> NoDevice, call |-> 0,
                           calls |-> 0, deleted |-> {}, last |-> NoDeletion]

\* commands.getCurrentDeviceInfo() settles in fetchDeviceInfo
FetchDeviceInfoReply(kind) ==
    /\ settingsPage.pc = "fetching"
    /\ CASE kind = "ok" ->
              /\ settingsPage' = [settingsPage EXCEPT
                     !.pc = "idle", !.currentDevice = CurrentId,
                     !.otherDevices = settingsPage.devices \ {CurrentId}]
              /\ UNCHANGED notifVars
         [] kind = "error" ->
              /\ addAllToQueue(<<Note("error", "result.error")>>)
              /\ settingsPage' = [settingsPage EXCEPT !.pc = "idle"]
         [] kind = "throw" ->
              /\ addAllToQueue(<<Note("error", "error.get_device_info_failed")>>)
              /\ settingsPage' = [settingsPage EXCEPT !.pc = "idle"]
    /\ UNCHANGED save
    /\ DeviceStoreUnchanged

\* deleteDevice(deviceId) up to `await ElMessageBox.confirm(...)`; the table
\* offers the devices of otherDevices, and the handler is also called for the
\* current device
DeleteDevice(deviceId) ==
    /\ settingsPage.pc = "idle"
    /\ settingsPage.calls < MaxDeletes
    /\ deviceId \in settingsPage.otherDevices \cup ({settingsPage.currentDevice} \ {NoDevice})
    /\ IF settingsPage.currentDevice = deviceId \/ deviceId \notin settingsPage.devices
       THEN /\ addAllToQueue(<<Note("error", "settings.delete_device_failed")>>)
            /\ settingsPage' = [settingsPage EXCEPT !.calls = @ + 1,
                                                    !.last = Deletion("refused", deviceId)]
       ELSE /\ settingsPage' = [settingsPage EXCEPT !.pc = "confirm", !.calls = @ + 1,
                                                    !.target = deviceId, !.last = NoDeletion]
            /\ UNCHANGED notifVars
    /\ UNCHANGED save
    /\ DeviceStoreUnchanged

\* ElMessageBox.confirm settles: the catch block when the dialog was
\* dismissed, else deleteDevice up to `await saveConfig()`
DeleteConfirmAnswer(answer) ==
    /\ settingsPage.pc = "confirm"
    /\ IF answer # "confirm"
       THEN /\ addAllToQueue(<<Note("info", "settings.operation_canceled")>>)
            /\ settingsPage' = [settingsPage EXCEPT
                   !.pc = "idle", !.last = Deletion("canceled", settingsPage.target)]
            /\ UNCHANGED save
       ELSE /\ saveConfigStart
            /\ settingsPage' = [settingsPage EXCEPT
                   !.pc = "saving", !.call = NextSaveCall,
                   !.devices = @ \ {settingsPage.target},
                   !.game = deleteDevicePaths(@, settingsPage.target),
                   !.deleted = @ \cup {settingsPage.target},
                   !.last = Deletion("deleted", settingsPage.target)]
            /\ UNCHANGED notifVars
    /\ DeviceStoreUnchanged

\* deleteDevice after `await saveConfig()`: showSuccess, then fetchDeviceInfo()
DeleteDeviceSaved ==
    /\ settingsPage.pc = "saving"
    /\ save[settingsPage.call].pc = "done"
    /\ addAllToQueue(<<Note("success", "settings.delete_device_success")>>)
    /\ settingsPage' = [settingsPage EXCEPT !.pc = "fetching"]
    /\ UNCHANGED save
    /\ DeviceStoreUnchanged

NextDevices ==
    \/ \E k \in ReplyKinds : FetchDeviceInfoReply(k)
    \/ \E d \in Devices : DeleteDevice(d)
    \/ \E a \in {"confirm", "cancel"} : DeleteConfirmAnswer(a)
    \/ DeleteDeviceSaved
    \/ \E c \in SaveCalls, k \in ReplyKinds : SetConfigReply(c, k)
    \/ \E c \in SaveCalls : SaveSettle(c)

\* =====================================================================
\* Global route middleware (middleware/error.global.ts)
\* =====================================================================
\* A fullPath is the sequence of its pieces: "/Management/Foo" is
\* <<"/", "Management", "/", "Foo">>, so that startsWith is the prefix test.
RootPath == <<"/">>

allowedPrefixes ==
    {<<"/", "About">>, <<"/", "AddGame">>, <<"/", "Settings">>, <<"/", "SyncSettings">>,
     <<"/", "Management">>}

\* the navigations requested: the pages, sub-paths, names that only begin
\* like a page, another case, a query, unknown pages, the management page of
\* two games
FullPaths ==
    {RootPath, <<"/", "About">>, <<"/", "about">>, <<"/", "About", "x">>,
     <<"/", "AddGame">>, <<"/", "AddGame", "/", "x">>, <<"/", "Settings">>,
     <<"/", "SyncSettings">>, <<"/", "Management">>,
     <<"/", "Management", "/", "Foo">>, <<"/", "Management", "/", "Bar">>,
     <<"/", "Management", "/", "Foo", "?", "x">>,
     <<"/", "?", "x">>, <<"/", "x">>, <<"/", "index.html">>}

NoParam == "undefined"

\* the path of a fullPath: the part before the query
pathOf(fullPath) ==
    IF \E i \in 1..Len(fullPath) : fullPath[i] = "?"
    THEN SubSeq(fullPath, 1, (CHOOSE i \in 1..Len(fullPath) :
                                 fullPath[i] = "?" /\ \A j \in 1..(i - 1) : fullPath[j] # "?") - 1)
    ELSE fullPath

\* to.params.name: set by the route pages/Management/[name].vue
paramsName(fullPath) ==
    LET p == pathOf(fullPath)
    IN IF Len(p) = 4 /\ SubSeq(p, 1, 3) = <<"/", "Management", "/">> THEN p[4] ELSE NoParam

isAllowedWithoutRoot(fullPath) ==
    \E prefix \in allowedPrefixes : fullPath = prefix \/ StartsWith(fullPath, prefix)

\* isRoot || allowedPrefixes.some(prefix => to.fullPath === prefix ||
\*                                         to.fullPath.startsWith(prefix))
isAllowed(fullPath) ==
    \/ fullPath = RootPath
    \/ \E prefix \in allowedPrefixes : fullPath = prefix \/ StartsWith(fullPath, prefix)

\* the middleware: TRUE when it returns navigateTo("/")
redirects(fullPath, games) ==
    \/ /\ StartsWith(fullPath, <<"/", "Management">>)
       /\ paramsName(fullPath) # NoParam
       /\ paramsName(fullPath) \notin games
    \/ ~isAllowed(fullPath)

RouteUnchanged ==
    UNCHANGED <<loadingVars, notifVars, configVars, rc, settingsPage, backupPage, addGame>>

\* the router before the first navigation, with the names of config.value.games
InitRoute ==
    \E gs \in SUBSET {"Foo", "Bar"} :
        app = [pc |-> "idle", games |-> gs, requested |-> RootPath, to |-> RootPath,
               redirected |-> 0, navigations |-> 0]

\* a navigation to fullPath is requested
Navigate(fullPath) ==
    /\ app.pc \in {"idle", "settled"}
    /\ app.navigations < MaxNavigations
    /\ app' = [app EXCEPT !.pc = "middleware", !.requested = fullPath, !.to = fullPath,
                          !.redirected = 0, !.navigations = @ + 1]
    /\ RouteUnchanged

\* the middleware runs for the target of the navigation; navigateTo("/")
\* makes the router navigate to the root, which runs the middleware again
RunMiddleware ==
    /\ app.pc = "middleware"
    /\ app.redirected < MaxRedirects
    /\ IF redirects(app.to, app.games)
       THEN app' = [app EXCEPT !.to = RootPath, !.redirected = @ + 1]
       ELSE app' = [app EXCEPT !.pc = "settled"]
    /\ RouteUnchanged

NextRoute ==
    \/ \E p \in FullPaths : Navigate(p)
    \/ RunMiddleware

\* =====================================================================
InitStore == InitLoading /\ InitNotif /\ InitConfig

\* the management page is not open
Init ==
    InitStore /\ rc = RcUnmounted /\ settingsPage = SettingsUnmounted /\ OtherPagesClosed

\* the management page is open on a game, in the desktop host
InitPage ==
    InitStore /\ isTauriEnv = TRUE /\ InitManagement /\ settingsPage = SettingsUnmounted
        /\ OtherPagesClosed

\* the settings page is open, in the desktop host
InitSettingsPage ==
    InitStore /\ isTauriEnv = TRUE /\ rc = RcUnmounted /\ InitSettings /\ OtherPagesClosed

\* The loading stack and the notification queue do not depend on the host
\* environment: their specifications fix the desktop host.
InitDesktop == Init /\ isTauriEnv = TRUE

SpecLoading == InitDesktop /\ [][NextLoading]_vars

SpecNotif == InitDesktop /\ [][NextNotif]_vars

SpecTimeout == InitDesktop /\ [][NextTimeout]_vars

\* setTimeout(resolve, 100) always fires: the suspended processQueue goes on
SpecNotifFair == SpecNotif /\ WF_vars(DelayElapsed)

SpecConfig == Init /\ [][NextConfig]_vars

SpecEvents == InitDesktop /\ [][NextEvents]_vars

SpecRace == InitDesktop /\ [][NextRace]_vars

SpecReconcile == InitPage /\ [][NextReconcile]_vars

SpecCopy == InitPage /\ [][NextCopy]_vars

SpecQuickAction == InitSettingsPage /\ [][NextQuickAction]_vars

\* the settings page after load_config(), in the desktop host
InitSoundsPage ==
    InitStore /\ isTauriEnv = TRUE /\ rc = RcUnmounted /\ InitSounds /\ OtherPagesClosed

SpecSounds == InitSoundsPage /\ [][NextSounds]_vars

SpecPreview == InitSoundsPage /\ [][NextPreview]_vars

\* the management page of a game, in the desktop host
InitBackupPage ==
    /\ InitStore /\ isTauriEnv = TRUE /\ rc = RcUnmounted /\ settingsPage = SettingsUnmounted
    /\ InitBackup /\ addGame = AddGameUnmounted /\ app = AppIdle

SpecBackup == InitBackupPage /\ [][NextBackup]_vars

\* the add game page, in the desktop host
InitAddGamePage ==
    /\ InitStore /\ isTauriEnv = TRUE /\ rc = RcUnmounted /\ settingsPage = SettingsUnmounted
    /\ backupPage = BackupUnmounted /\ InitAddGame /\ app = AppIdle

SpecAddGame == InitAddGamePage /\ [][NextAddGame]_vars

\* the device setup dialog and the settings page's device list, in the desktop host
InitImportPage ==
    /\ InitStore /\ isTauriEnv = TRUE /\ rc = RcUnmounted
    /\ backupPage = BackupUnmounted /\ addGame = AddGameUnmounted /\ InitImport

SpecImport == InitImportPage /\ [][NextImport]_vars

\* the operations guarded by a modal dialog, in the desktop host
SpecDialogs == InitDesktop /\ [][NextDialogs]_vars

\* the settings page opened in the desktop host, for the unsaved-hotkeys flag
InitHotkeysPage ==
    /\ InitStore /\ isTauriEnv = TRUE /\ rc = RcUnmounted /\ settingsPage = HotkeysUnmounted
    /\ backupPage = BackupUnmounted /\ addGame = AddGameUnmounted /\ app = AppIdle

SpecHotkeys == InitHotkeysPage /\ [][NextHotkeys]_vars

\* the settings page opened in the desktop host, for the deletion of devices
InitDevicesPage ==
    /\ InitStore /\ isTauriEnv = TRUE /\ rc = RcUnmounted /\ InitDevices
    /\ backupPage = BackupUnmounted /\ addGame = AddGameUnmounted /\ app = AppIdle

SpecDevices == InitDevicesPage /\ [][NextDevices]_vars

\* the router and its global middleware
InitRoutePage ==
    /\ InitStore /\ isTauriEnv = TRUE /\ rc = RcUnmounted /\ settingsPage = SettingsUnmounted
    /\ backupPage = BackupUnmounted /\ addGame = AddGameUnmounted /\ InitRoute

SpecRoute == InitRoutePage /\ [][NextRoute]_vars

\* the automatic scan of the AddGame page
InitScanPage ==
    /\ InitStore /\ isTauriEnv = TRUE /\ rc = RcUnmounted /\ settingsPage = SettingsUnmounted
    /\ backupPage = BackupUnmounted /\ InitScan /\ app = AppIdle

SpecScan == InitScanPage /\ [][NextScan]_vars

\* =====================================================================
\* Properties of the global loading stack
\* =====================================================================
Pending(c) == wl[c].pc \in {"awaiting", "finally"}

Settled(c) == wl[c].pc = "done"

EffectiveMessage(c) == IF wl[c].message = NoMsg THEN DefaultMsg ELSE wl[c].message

Max(S) == CHOOSE x \in S : \A y \in S : y <= x

\* the most recently started withLoading call that has not settled yet
MostRecentPending ==
    startOrder[Max({i \in 1..Len(startOrder) : Pending(startOrder[i])})]

\* C1: with withLoading calls only, isLoading is true exactly when some call
\* has started and not yet settled; once every started call has settled,
\* isLoading is false and the message stack is empty.
C1_LoadingBalance ==
    /\ isLoading <=> (\E c \in Calls : Pending(c))
    /\ (startOrder # <<>> /\ \A c \in Range(startOrder) : Settled(c))
          => (~isLoading /\ messageStack = <<>>)

\* a call has settled by rejecting while an overlapping call is still pending
C1_Witness ==
    \E c, d \in Calls :
        /\ Settled(c) /\ wl[c].result.kind = "rejected"
        /\ Pending(d) /\ isLoading

\* C2: while calls are pending, loadingMessage is the message of the most
\* recently started call that is still pending, for every settle order.
C2_MessageOfMostRecentPending ==
    (\E c \in Calls : Pending(c)) => loadingMessage = EffectiveMessage(MostRecentPending)

\* C3: a withLoading call pushes exactly one entry (its message) when it
\* starts, before op runs; it removes exactly one entry when it settles after
\* op resolved or rejected; the stack is touched at no other step; and the
\* call settles with the outcome of op.
C3_ScopedAcquisition ==
    [][\A c \in Calls :
          /\ (wl[c].pc = "idle" /\ wl'[c].pc = "awaiting")
                => messageStack' = Append(messageStack, EffectiveMessage(c)')
          /\ (wl[c].pc = "awaiting" /\ wl'[c].pc = "finally")
                => messageStack' = messageStack
          /\ (wl[c].pc = "finally" /\ wl'[c].pc = "done")
                => /\ Len(messageStack') = Len(messageStack) - 1
                   /\ wl'[c].result = wl[c].op
                   /\ wl[c].op \in Outcomes]_vars

\* a call with a message of its own has settled with the rejection of its op,
\* and the stack is empty again
C3_Witness ==
    \E c \in Calls :
        /\ Settled(c) /\ wl[c].message # NoMsg
        /\ wl[c].result.kind = "rejected" /\ wl[c].result = wl[c].op
        /\ messageStack = <<>>

\* =====================================================================
\* Properties of the notification queue
\* =====================================================================
RenderedIds == IdsOf(rendered)

QueuedIds == IdsOf(messageQueue)

ActiveIds == IdsOf(activeNotifications)

EnqueuedIds == IdsOf(enqueued)

\* C4: when no notification was closed while pending, the notifications are
\* handed to ElNotification in exactly the order of the show* calls.
C4_FifoRendering ==
    closedPending = {} => RenderedIds \o QueuedIds = EnqueuedIds

\* three notifications of mixed types were all rendered, none closed pending
C4_Witness ==
    /\ closedPending = {}
    /\ Len(rendered) = 3
    /\ rendered[1].type # rendered[2].type
    /\ rendered[2].type # rendered[3].type

\* C5: closeNotification with an id that is neither pending nor active
\* changes nothing; doing it twice gives the state of doing it once; for an
\* active id it closes the handle once and removes that entry.
C5_CloseIdempotent ==
    \A id \in Ids :
        LET r1 == closeNotification(messageQueue, activeNotifications, handleClosed, id)
            r2 == closeNotification(r1.queue, r1.active, r1.closed, id)
        IN /\ (id \notin Range(QueuedIds) /\ id \notin Range(ActiveIds))
                 => r1 = [queue |-> messageQueue, active |-> activeNotifications,
                          closed |-> handleClosed]
           /\ r2 = r1
           /\ id \in Range(ActiveIds)
                 => /\ r1.closed = [handleClosed EXCEPT ![id] = @ + 1]
                    /\ IdsOf(r1.active) = Without(ActiveIds, {id})
           /\ handleClosed[id] <= 1

\* an active notification was closed (handle closed once, entry gone) while
\* another one stays active
C5_Witness ==
    \E id \in Ids :
        /\ handleClosed[id] = 1
        /\ id \in Range(RenderedIds)
        /\ id \notin Range(ActiveIds)
        /\ activeNotifications # <<>>

\* C6: a notification closed while it is in the pending queue leaves the
\* queue and is never rendered; the others are rendered in enqueue order.
C6_ClosedPendingNeverRendered ==
    /\ closedPending \cap Range(RenderedIds) = {}
    /\ closedPending \cap Range(QueuedIds) = {}
    /\ RenderedIds \o QueuedIds = Without(EnqueuedIds, closedPending)

\* a pending notification was closed during the worker's delay, and the ones
\* enqueued before and after it were rendered
C6_Witness ==
    \E i, j, k \in 1..Len(enqueued) :
        /\ i < j /\ j < k
        /\ enqueued[j].id \in closedPending
        /\ enqueued[i].id \in Range(RenderedIds)
        /\ enqueued[k].id \in Range(RenderedIds)

\* =====================================================================
\* Properties of the configuration store
\* =====================================================================
RefreshFails(c) ==
    /\ refresh[c].pc = "replied"
    /\ refresh[c].reply.kind # "ok"
    /\ refresh'[c].pc = "done"

SaveFails(c) ==
    /\ save[c].pc = "replied"
    /\ save[c].reply.kind # "ok"
    /\ save'[c].pc = "done"

\* C7: config is always a configuration document, and whenever a
\* refreshConfig call has failed (error result or exception) config equals
\* the default configuration document when the call settles, whatever
\* happened before it.
C7_FallbackIsDefaultDocument ==
    /\ [](ConfigValue \in Docs)
    /\ [][\A c \in RefreshCalls : RefreshFails(c) => ConfigValue' = DEFAULT_CONFIG]_vars

\* C8: whenever no refreshConfig call is in flight the store's isLoading flag
\* is false; a starting call sets it, and a settling call clears it on the
\* success, error-result and exception paths alike.
C8_LoadingFlagCleared ==
    /\ [](InFlight(refresh) = {} => ~configIsLoading)
    /\ [][\A c \in RefreshCalls :
            /\ (refresh[c].pc = "idle" /\ refresh'[c].pc = "awaiting") => configIsLoading'
            /\ (refresh[c].pc = "replied" /\ refresh'[c].pc = "done") => ~configIsLoading']_vars

\* every refreshConfig call has settled, one of them by failing, and the flag is clear
C8_Witness ==
    /\ \A c \in RefreshCalls : refresh[c].pc = "done"
    /\ errorLog["Failed to load config"] >= 1
    /\ ~configIsLoading

\* C9: a failing saveConfig (error result or exception) leaves the in-memory
\* document as it is, enqueues one error notification, and its promise
\* resolves; starting the call leaves the document alone as well.
C9_SaveFailureKeepsDocument ==
    [][\A c \in SaveCalls :
          /\ SaveFails(c) =>
                /\ heap' = heap /\ configRef' = configRef
                /\ enqueued' = Append(enqueued, [id |-> nextId, type |-> "error",
                                                 message |-> "error.set_config_failed"])
                /\ save'[c].result = "resolved"
          /\ (save[c].pc = "idle" /\ save'[c].pc = "awaiting") =>
                (heap' = heap /\ configRef' = configRef)]_vars

\* a saveConfig call failed and resolved; the document still differs from the
\* persisted one, and the error notification is there
C9_Witness ==
    /\ save[1].pc = "done" /\ save[1].result = "resolved"
    /\ errorLog["Failed to set config"] = 1
    /\ ConfigValue # backendDoc
    /\ \E i \in 1..Len(enqueued) : enqueued[i].message = "error.set_config_failed"

\* C10: in the desktop host, an event handed to the quickActionCompleted
\* listener starts exactly one refreshConfig call when its status is Success
\* and its operation is Backup, and starts none otherwise.
C10_EventStartsRefresh ==
    [][\A p \in Payloads :
          eventLog' = Append(eventLog, p) =>
              IF p.status = "Success" /\ p.operation = "Backup"
              THEN /\ Cardinality(Started(refresh')) = Cardinality(Started(refresh)) + 1
                   /\ InFlight(refresh') = InFlight(refresh) \cup (Started(refresh') \ Started(refresh))
                   /\ configIsLoading'
              ELSE refresh' = refresh]_vars

\* the listener has seen a successful backup, which started a refresh next to
\* the initial one, and a successful event of another operation, which did not
C10_Witness ==
    /\ isTauriEnv
    /\ \E i \in 1..Len(eventLog) : eventLog[i] = [status |-> "Success", operation |-> "Backup"]
    /\ \E i \in 1..Len(eventLog) : eventLog[i] = [status |-> "Success", operation |-> "Restore"]
    /\ Cardinality(Started(refresh)) = 2

\* C11: a refreshConfig started by the quickActionCompleted listener is not
\* serialized against edits and saves: when it completes with an ok reply
\* the fetched document replaces the current one, whatever was edited while
\* the call was in flight, and nothing is enqueued or persisted by that step.
C11_RefreshOverwritesEdits ==
    [][\A c \in RefreshCalls :
          (refresh[c].pc = "replied" /\ refresh[c].reply.kind = "ok" /\ refresh'[c].pc = "done")
             => /\ ConfigValue' = refresh[c].reply.data
                /\ enqueued' = enqueued
                /\ backendDoc' = backendDoc
                /\ save' = save]_vars

\* the interleaving of the claim: an edit made while an event-triggered
\* refresh was in flight was replaced by the completion of that refresh; no
\* saveConfig was ever called and no notification was ever enqueued
C11_Witness ==
    /\ race.lost \cap race.byEvent # {}
    /\ Started(save) = {}
    /\ enqueued = <<>>

IsEmptyEntry(p) == p = Absent \/ Trim(p) = ""

\* the mappings of a game: one per save unit, then the launch-path mapping
MappingsOf(game) ==
    [i \in 1..Len(game.save_paths.units) |-> game.save_paths.units[i].paths]
        \o <<game.game_paths>>

\* the devices, other than the current one, with a non-empty path in a save unit
OthersInSaveUnits(game) ==
    {d \in Devices \ {CurrentId} :
        \E i \in 1..Len(game.save_paths.units) :
            ~IsEmptyEntry(game.save_paths.units[i].paths.map[d])}

\* the devices, other than the current one, with a non-empty launch path
OthersInLaunchPaths(game) ==
    {d \in Devices \ {CurrentId} : ~IsEmptyEntry(game.game_paths.map[d])}

\* the current device has a non-empty path in at least one save unit
CurrentHasSavePath(game) ==
    \E i \in 1..Len(game.save_paths.units) :
        ~IsEmptyEntry(game.save_paths.units[i].paths.map[CurrentId])

\* copyPathsFromDevice has run on the page's game
Copied == rc.pc \in {"saving", "done"} /\ rc.source # NoSource /\ rc.currentDevice # "null"

\* nothing was shown, changed or saved
NothingDone ==
    /\ rc.confirms = 0
    /\ rc.prompts = 0
    /\ rc.game = rc.game0
    /\ Started(save) = {}

\* C13: after copyPathsFromDevice(source), in every save unit's mapping and in
\* the launch-path mapping, a non-empty entry of the current device is unchanged,
\* an empty or absent one holds the source's value when that value is non-empty,
\* and the entries of every other device (the source included) are unchanged
\* (empty: absent, "" or white space only, as the code tests it)
C13_FillGap ==
    Copied =>
        LET before == MappingsOf(rc.game0)
            after == MappingsOf(rc.game)
        IN /\ Len(after) = Len(before)
           /\ \A i \in 1..Len(before) :
                 /\ \A d \in Devices \ {CurrentId} : after[i].map[d] = before[i].map[d]
                 /\ ~IsEmptyEntry(before[i].map[CurrentId])
                       => after[i].map[CurrentId] = before[i].map[CurrentId]
                 /\ (IsEmptyEntry(before[i].map[CurrentId]) /\ ~IsEmptyEntry(before[i].map[rc.source]))
                       => after[i].map[CurrentId] = before[i].map[rc.source]

C13_Witness ==
    /\ Copied
    /\ rc.source = "a1"
    /\ Len(rc.game0.save_paths.units) = 2
    /\ rc.game0.save_paths.units[1].paths.map = [a1 |-> "/a/save", a2 |-> "/b/save", b0 |-> Blank]
    /\ rc.game.save_paths.units[1].paths.map[CurrentId] = "/a/save"
    /\ rc.game0.save_paths.units[2].paths.map = [a1 |-> "/a/save", a2 |-> Blank, b0 |-> "/c/save"]
    /\ rc.game.save_paths.units[2].paths.map[CurrentId] = "/c/save"
    /\ rc.game0.game_paths.map[CurrentId] = Absent
    /\ rc.game.game_paths.map[CurrentId] = "/a/save"

\* C14: checkCurrentDeviceSavePaths shows no dialog, changes nothing in the game
\* (the configuration's own game object) and calls no saveConfig when the game
\* has no save_paths or the current device has a non-empty path in some save unit
C14_NoReconciliationNeeded ==
    (~rc.game0.save_paths.defined \/ CurrentHasSavePath(rc.game0)) => NothingDone

C14_Witness ==
    /\ rc.pc = "done"
    /\ rc.currentDevice = CurrentId
    /\ Len(rc.game0.save_paths.units) = 2
    /\ rc.game0.save_paths.units[1].paths.map = [a1 |-> "/a/save", a2 |-> Blank, b0 |-> Absent]
    /\ rc.game0.save_paths.units[2].paths.map[CurrentId] = "/c/save"

\* C15 as stated: the candidate source devices are the other devices with a
\* non-empty path in a save unit's mapping or in the launch-path mapping
C15_CandidatesIncludeLaunchPaths ==
    rc.needed =>
        Range(rc.candidates) = OthersInSaveUnits(rc.game0) \cup OthersInLaunchPaths(rc.game0)

\* C15: when reconciliation is needed, the candidate source devices are exactly
\* the other devices with a non-empty path in at least one save unit's mapping;
\* the launch-path mapping is not consulted
C15_CandidatesFromSaveUnits ==
    rc.needed =>
        /\ Range(rc.candidates) = OthersInSaveUnits(rc.game0)
        /\ Len(rc.candidates) = Cardinality(Range(rc.candidates))

C15_Witness ==
    /\ rc.needed
    /\ rc.candidates = <<"a2">>
    /\ OthersInLaunchPaths(rc.game0) = {"a1"}
    /\ Len(rc.game0.save_paths.units) = 2
    /\ rc.game0.save_paths.units[1].paths.map["a2"] = Blank

\* C16: when no other device has a non-empty save path recorded for the game,
\* checkCurrentDeviceSavePaths shows no dialog, changes nothing and calls no saveConfig
C16_NoSourceNoAction ==
    OthersInSaveUnits(rc.game0) = {} => NothingDone

C16_Witness ==
    /\ rc.pc = "done"
    /\ rc.needed
    /\ rc.currentDevice = CurrentId
    /\ rc.candidates = <<>>
    /\ Len(rc.game0.save_paths.units) = 2
    /\ rc.game0.save_paths.units[1].paths.defined
    /\ rc.game0.save_paths.units[2].paths.defined

\* C17 as stated: with exactly one candidate the paths are copied and no prompt
\* or dialog is shown
C17_SingleCandidateNoDialog ==
    (rc.needed /\ Len(rc.candidates) = 1 /\ rc.pc \in {"saving", "done"}) =>
        /\ rc.confirms = 0
        /\ rc.prompts = 0
        /\ rc.source = rc.candidates[1]

\* C17: with exactly one candidate the confirmation dialog is shown once and the
\* device-selection prompt is never shown; the candidate's paths are copied
\* exactly when the user confirms, and nothing changes when the user declines
C17_SingleCandidateConfirmOnly ==
    (rc.needed /\ Len(rc.candidates) = 1) =>
        /\ rc.confirms = 1
        /\ rc.prompts = 0
        /\ rc.pc \in {"saving", "done"} =>
              /\ rc.answer = "confirm" <=> rc.source = rc.candidates[1]
              /\ rc.answer = "confirm" =>
                    rc.game = copyPaths(rc.game0, rc.candidates[1], CurrentId).game
              /\ rc.answer # "confirm" => rc.game = rc.game0 /\ Started(save) = {}

C17_Witness ==
    /\ rc.needed
    /\ rc.candidates = <<"a1">>
    /\ rc.pc = "done"
    /\ rc.answer = "confirm"
    /\ rc.source = "a1"
    /\ rc.game # rc.game0
    /\ rc.drawer

\* C18: with several candidates, a cancelled selection or one that names no
\* candidate device ends with the game unchanged and without a saveConfig call
C18_InvalidSelectionAborts ==
    (/\ Len(rc.candidates) >= 2
     /\ \/ rc.input.kind = "cancel"
        \/ /\ rc.input.kind = "value"
           /\ \A i \in 1..Len(rc.candidates) : DeviceChars(rc.candidates[i]) # rc.input.value)
        => rc.game = rc.game0 /\ Started(save) = {}

\* an entry of the current device differs from what it was
CurrentEntriesChanged ==
    \E i \in 1..Len(MappingsOf(rc.game0)) :
        MappingsOf(rc.game)[i].map[CurrentId] # MappingsOf(rc.game0)[i].map[CurrentId]

\* C19: copyPathsFromDevice calls saveConfig only if the copy changed a save-unit
\* path or the launch path of the current device; when nothing was changed
\* there is no saveConfig call and no notification
C19_SaveOnlyOnChange ==
    /\ Started(save) # {} => Copied /\ CurrentEntriesChanged /\ rc.updated
    /\ (Copied /\ ~CurrentEntriesChanged) => Started(save) = {} /\ enqueued = <<>> /\ rc.pc = "done"

C19_Witness ==
    /\ Copied
    /\ rc.source = "a1"
    /\ rc.inConfig
    /\ ~CurrentEntriesChanged
    /\ Len(rc.game0.save_paths.units) = 2
    /\ rc.game0.save_paths.units[1].paths.map = [a1 |-> "/a/save", a2 |-> Blank, b0 |-> "/c/save"]
    /\ rc.game0.game_paths.map = [a1 |-> "/a/save", a2 |-> Blank, b0 |-> "/c/save"]

\* =====================================================================
\* Properties of the quick action settings
\* =====================================================================
\* C20: ensureQuickActionDefaults on a quick_action value without sounds sets
\* sounds.success and sounds.failure to the default kind and a missing
\* enable_sound or enable_notification to true; every field that was present
\* keeps its value; a second application changes nothing
C20_EnsureDefaults ==
    [][(settingsPage'.calls = settingsPage.calls + 1 /\ settingsPage.quick_action.defined) =>
          LET old == settingsPage.quick_action
              new == settingsPage'.quick_action
          IN /\ new.defined
             /\ ~old.sounds.defined =>
                   /\ new.sounds.defined
                   /\ new.sounds.success = [kind |-> "default", path |-> ""]
                   /\ new.sounds.failure = [kind |-> "default", path |-> ""]
             /\ old.sounds.defined => new.sounds = old.sounds
             /\ new.enable_sound = IF old.enable_sound = "undefined" THEN "true" ELSE old.enable_sound
             /\ new.enable_notification =
                   IF old.enable_notification = "undefined" THEN "true" ELSE old.enable_notification
             /\ new.quick_action_game = old.quick_action_game
             /\ settingsPage.calls >= 1 => new = old]_vars

C20_Witness ==
    /\ settingsPage.calls = 2
    /\ settingsPage.before = settingsPage.quick_action
    /\ settingsPage.quick_action =
          [defined |-> TRUE, enable_sound |-> "false", enable_notification |-> "true",
           sounds |-> [defined |-> TRUE, success |-> [kind |-> "default", path |-> ""],
                       failure |-> [kind |-> "default", path |-> ""]],
           quick_action_game |-> "g1"]

\* the last n edits of the sound slots
LastOps(n) == SubSeq(settingsPage.ops, Len(settingsPage.ops) - n + 1, Len(settingsPage.ops))

ModeOp(e, mode) == [effect |-> e, op |-> "mode", value |-> mode]

PathOp(e, x) == [effect |-> e, op |-> "path", value |-> x]

\* C21: after ensureQuickActionDefaults has run on an existing quick_action value,
\* sounds.success and sounds.failure are both defined, and stay so after every
\* later mode or path edit
C21_SlotsDefined ==
    (settingsPage.calls >= 1 /\ settingsPage.quick_action.defined) =>
        /\ settingsPage.quick_action.sounds.defined
        /\ settingsPage.quick_action.sounds.success.kind # "undefined"
        /\ settingsPage.quick_action.sounds.failure.kind # "undefined"

\* C22: for either sound, file with path x, then default, then file again gives
\* the empty path and not x; setting the mode to file on a file source with path
\* x keeps x
C22_ModeSwitchPath ==
    settingsPage.quick_action.defined =>
        \A e \in Effects, x \in InputPaths :
            /\ (Len(settingsPage.ops) >= 3
                /\ LastOps(3) = <<PathOp(e, x), ModeOp(e, "default"), ModeOp(e, "file")>>)
                  => /\ settingsPage.quick_action.sounds[e] = [kind |-> "file", path |-> ""]
                     /\ settingsPage.quick_action.sounds[e].path # x
            /\ (Len(settingsPage.ops) >= 2
                /\ LastOps(2) = <<PathOp(e, x), ModeOp(e, "file")>>)
                  => settingsPage.quick_action.sounds[e] = [kind |-> "file", path |-> x]

C22_Witness ==
    /\ settingsPage.quick_action.defined
    /\ settingsPage.ops = <<PathOp("failure", "x.wav"), ModeOp("failure", "default"),
                            ModeOp("failure", "file")>>
    /\ settingsPage.quick_action.sounds.failure = [kind |-> "file", path |-> ""]

\* C23: the preferences buildSoundPreferences returned are not changed by later
\* changes of quick_action.sounds or enable_sound, such as those made while the
\* preview request built from them is in flight; the result is undefined exactly
\* when the configuration has no quick_action
C23_PreferencesSnapshot ==
    settingsPage.preview.pc # "idle" =>
        /\ ReadPreferences(settingsPage.preview.preferences, settingsPage.quick_action)
              = settingsPage.preview.sent
        /\ settingsPage.preview.preferences.defined <=> settingsPage.preview.hadQuickAction

C23_Witness ==
    /\ settingsPage.preview.pc = "awaiting"
    /\ settingsPage.preview.sent.enable_sound = "true"
    /\ settingsPage.preview.sent.sounds.success = [kind |-> "file", path |-> "x.wav"]
    /\ settingsPage.quick_action.enable_sound = "false"
    /\ settingsPage.quick_action.sounds.success = [kind |-> "file", path |-> "y.wav"]

\* =====================================================================
\* Properties of backup and restore
\* =====================================================================
BlockMessages == {"manage.save_too_fast_error", "manage.last_backup_unfinished_error",
                  "manage.last_overwrite_unfinished_error"}

FailureMessages == {"backend error", "manage.recover_failed"}

\* the number of enqueued error notifications whose message is in M
ErrorNotes(M) ==
    Cardinality({i \in 1..Len(enqueued) : enqueued[i].type = "error" /\ enqueued[i].message \in M})

\* the backend calls of the page that have settled with an error result or by throwing
SettledFailures ==
    Cardinality({r \in Requests : backupPage.req[r].pc = "done"
                                  /\ backupPage.req[r].reply \in {"error", "throw"}})
        + backupPage.info.failed

\* C24: every failure of a backend call (error result or exception) results in
\* exactly one enqueued notification
C24_OneNotificationPerFailure == ErrorNotes(FailureMessages) = SettledFailures

\* C26: at most one createSnapshot or restoreSnapshot call is in flight; a backup
\* or restore requested while another has not settled invokes no backend
\* command and enqueues an error notification
C26_OneSnapshotCallInFlight ==
    /\ Cardinality(InFlightRequests(backupPage.req)) <= 1
    /\ \A r \in Requests :
          backupPage.req[r].busyAtStart =>
              backupPage.req[r].pc = "blocked" /\ backupPage.req[r].reply = "none"
    /\ ErrorNotes(BlockMessages) = Cardinality({r \in Requests : backupPage.req[r].pc = "blocked"})

C26_Witness ==
    /\ backupPage.req[1].kind = "restore"
    /\ backupPage.req[1].pc = "replied"
    /\ backupPage.req[2].kind = "backup"
    /\ backupPage.req[2].pc = "blocked"
    /\ backupPage.req[2].busyAtStart
    /\ ErrorNotes({"manage.last_overwrite_unfinished_error"}) = 1

\* C27: once the createSnapshot / restoreSnapshot calls have settled (ok, error
\* or exception) and the cooldown has run out, the three locks are released
C27_LocksReleased ==
    (InFlightRequests(backupPage.req) = {} /\ backupPage.timers = 0) =>
        /\ backupPage.backup_button_time_limit
        /\ backupPage.backup_button_backup_limit
        /\ backupPage.apply_button_apply_limit

\* C28: no operation lets an error escape: the promise of send_save_to_background,
\* apply_save and refresh_backups_info never rejects
C28_NoRejection ==
    /\ \A r \in Requests : backupPage.req[r].outcome # "rejected"
    /\ backupPage.info.rejected = 0

\* =====================================================================
\* Properties of adding games
\* =====================================================================
\* C25: no two entries of config.games have names that are equal ignoring
\* case, after any sequence of manual saves and quick adds.
C25_UniqueGameNames ==
    addGame.open =>
        \A i, j \in 1..Len(addGame.games) :
            i # j => toLowerCase(addGame.games[i]) # toLowerCase(addGame.games[j])

\* =====================================================================
\* Properties of the default document and of overlapping refreshes
\* =====================================================================
\* C29: the default configuration document is never changed by the UI: an
\* in-place edit of config made after config has fallen back to the default
\* does not alter the document that a later fallback assigns.
C29_DefaultDocumentUnchanged == heap["default"] = DEFAULT_CONFIG

\* C30 as stated: when two refreshConfig calls overlap and both succeed, config
\* finally equals the response to the one started last: once that call has
\* settled, the response to the call started first, arriving later, does not
\* replace what config holds.  (Without in-place edits config changes only
\* when a refreshConfig call settles, so config holds the later call's
\* response.)
C30_LatestStartedWins ==
    [][\A c, m \in RefreshCalls :
          (/\ c < m
           /\ Started(refresh) = {c, m}
           /\ refresh[m].pc = "done"
           /\ errorLog["Failed to load config"] = 0
           /\ refresh[c].pc = "replied"
           /\ refresh[c].reply.kind = "ok"
           /\ refresh'[c].pc = "done")
          => ConfigValue' = ConfigValue]_vars

\* C30: when several refreshConfig calls overlap and all succeed, config
\* finally equals the response to the call that completes last, whatever the
\* order in which the calls were started: the successful completion after
\* which no call is in flight leaves its own response in config.
C30_LastCompletedWins ==
    [][\A c \in RefreshCalls :
          (/\ refresh[c].pc = "replied"
           /\ refresh[c].reply.kind = "ok"
           /\ refresh'[c].pc = "done"
           /\ InFlight(refresh') = {})
          => ConfigValue' = refresh[c].reply.data]_vars

\* two overlapping calls have both succeeded; the one started first completed
\* last and its response, different from the event-started second call's,
\* is what config holds
C30_Witness ==
    /\ Started(refresh) = {1, 2}
    /\ \A c \in {1, 2} : refresh[c].pc = "done"
    /\ errorLog["Failed to load config"] = 0
    /\ race.overtaken = {2}
    /\ ConfigValue # backendDoc

\* C31: the store's isLoading flag is true whenever at least one refreshConfig
\* call is in flight, also when several calls overlap and one of them
\* settles before the others.
C31_LoadingWhileInFlight == InFlight(refresh) # {} => configIsLoading

\* =====================================================================
\* Properties of the notifications' lifetime and of the drain worker
\* =====================================================================
\* C32: a notification rendered with a finite duration is destroyed when its
\* timeout expires: it is no longer a member of the active notifications,
\* without any closeNotification call.
C32_ExpiredNotActive ==
    \A id \in expired : FindIndex(activeNotifications, id) = 0

\* C33: every show* call creates a new queue entry with an identifier of its
\* own, identical messages included; no entry is rendered twice; and, the
\* 100ms timer always firing, every entry waiting in the queue is eventually
\* rendered unless it is closed while pending.
C33_EveryEntryRendered ==
    /\ [](/\ Len(enqueued) = nextId - 1
          /\ \A i, j \in 1..Len(enqueued) : i # j => enqueued[i].id # enqueued[j].id
          /\ \A i, j \in 1..Len(rendered) : i # j => rendered[i].id # rendered[j].id)
    /\ \A id \in Ids :
          (id \in Range(QueuedIds)) ~> (id \in Range(RenderedIds) \/ id \in closedPending)

\* two show* calls with the same type and message gave two entries, and both
\* were rendered; nothing is left in the queue
C33_Witness ==
    /\ Len(rendered) = 2
    /\ rendered[1].id # rendered[2].id
    /\ rendered[1].type = rendered[2].type
    /\ rendered[1].message = rendered[2].message
    /\ messageQueue = <<>>
    /\ closedPending = {}

\* C34: at most one drain worker is active, however many show* calls arrive
\* while it waits; a rendering is made either by the worker when its 100ms
\* delay has elapsed or when no worker is active (the previous one finished
\* its delay and stopped); and the worker stops only on an empty queue.
C34_SingleWorker ==
    /\ [](workers <= 1 /\ (isProcessing <=> workers = 1))
    /\ [][rendered' # rendered =>
            /\ Len(rendered') = Len(rendered) + 1
            /\ \/ ~isProcessing
               \/ workers = 1 /\ nextId' = nextId /\ messageQueue # <<>>]_vars
    /\ [][(isProcessing /\ ~isProcessing') => messageQueue = <<>>]_vars

\* two show* calls arrived while the worker was waiting: both are queued
\* behind the one worker
C34_Witness ==
    /\ workers = 1
    /\ Len(messageQueue) = 2
    /\ Len(rendered) = 1

\* =====================================================================
\* Properties of the path import
\* =====================================================================
\* the current device's non-empty paths of game0 are those of game
PathKept(before, after) ==
    (Truthy(before.map[CurrentId]) /\ Trim(before.map[CurrentId]) # "")
        => after.map[CurrentId] = before.map[CurrentId]

PathsPreserved(game0, game) ==
    /\ \A i \in 1..Len(game0.save_paths.units) :
          PathKept(game0.save_paths.units[i].paths, game.save_paths.units[i].paths)
    /\ PathKept(game0.game_paths, game.game_paths)

\* C35: importing paths from another device, in handleDeviceSetup and in
\* importFromDevice, preserves every existing non-empty path of the current
\* device, of the save units and of the launch paths.
C35_ImportPreservesPaths ==
    /\ PathsPreserved(app.game0, app.game)
    /\ PathsPreserved(settingsPage.game0, settingsPage.game)

\* =====================================================================
\* Properties of the dialog-guarded operations
\* =====================================================================
\* C36: when the dialog of an operation is dismissed, the operation is
\* abandoned without calling the backend, an info notification is enqueued
\* and no error notification is enqueued.
C36_DismissedIsInfo ==
    app.pc = "canceled" =>
        /\ app.calls = 0
        /\ "info" \in notesOfOperation
        /\ "error" \notin notesOfOperation

\* =====================================================================
\* Properties of the automatic scan
\* =====================================================================
\* C37: at most one scanGames call is in flight at any time, and once every
\* startScan call has returned no scan-progress listener remains registered.
C37_OneScanNoListenerLeft ==
    /\ Cardinality(ScansInFlight) <= 1
    /\ ScansSettled => addGame.registered = {}

\* =====================================================================
\* Properties of the unsaved-hotkeys flag
\* =====================================================================
\* C38: every user edit of the quick_action settings sets hotkeysChanged, the
\* first edit after the page is opened included, and no replacement of the
\* configuration by refreshConfig sets it.
C38_HotkeysChangedByEditsOnly ==
    settingsPage.mounted =>
        /\ "user" \notin settingsPage.skipped
        /\ "refresh" \notin settingsPage.setBy

\* =====================================================================
\* Properties of the deletion of devices
\* =====================================================================
\* no mapping of the game has the key deviceId
NoPathsOf(game, deviceId) ==
    /\ ~hasKey(game.game_paths, deviceId)
    /\ \A i \in 1..Len(game.save_paths.units) : ~hasKey(game.save_paths.units[i].paths, deviceId)

\* C39: deleteDevice never removes the current device: a call for it reports
\* failure and changes nothing. After a confirmed deletion of another device
\* d, config.devices has no entry for d and neither the launch-path mapping
\* nor a save unit's path mapping of a game has the key d. When the dialog is
\* dismissed the configuration is unchanged and saveConfig is not called.
C39_DeleteDevice ==
    LET p == settingsPage
    IN /\ CurrentId \in p.devices
       /\ (p.last.outcome = "refused" /\ p.last.device = p.currentDevice) =>
              /\ p.devices = p.last.devices0 /\ p.game = p.last.game0
              /\ Cardinality(Started(save)) = p.last.saves0
              /\ enqueued[p.last.note].type = "error"
       /\ \A d \in p.deleted : d # CurrentId /\ d \notin p.devices /\ NoPathsOf(p.game, d)
       /\ p.last.outcome = "canceled" =>
              /\ p.devices = p.last.devices0 /\ p.game = p.last.game0
              /\ Cardinality(Started(save)) = p.last.saves0
              /\ enqueued[p.last.note].type = "info"

\* a device that had a launch path and a save path in the game has been
\* deleted after confirmation, and the save has settled
C39_Witness ==
    /\ settingsPage.last.outcome = "deleted"
    /\ settingsPage.pc = "idle"
    /\ hasKey(settingsPage.last.game0.game_paths, settingsPage.last.device)
    /\ \E i \in 1..Len(settingsPage.last.game0.save_paths.units) :
          hasKey(settingsPage.last.game0.save_paths.units[i].paths, settingsPage.last.device)

\* =====================================================================
\* Properties of the route middleware
\* =====================================================================
\* C40: the middleware redirects at most once per navigation and always to
\* the root path; a navigation to /Management/<name> with a name that is not
\* configured, or to a path that is neither the root nor begins with an
\* allowed prefix, ends at the root after one redirect; a navigation to the
\* root is never redirected, so there is no redirect loop.
C40_RedirectOnceToRoot ==
    /\ app.redirected <= 1
    /\ app.redirected = 1 => app.to = RootPath /\ ~redirects(app.to, app.games)
    /\ app.requested = RootPath => app.redirected = 0
    /\ app.pc = "settled" =>
          /\ (paramsName(app.requested) # NoParam /\ paramsName(app.requested) \notin app.games)
                => app.redirected = 1
          /\ (app.requested # RootPath
               /\ \A prefix \in allowedPrefixes : ~StartsWith(app.requested, prefix))
                => app.redirected = 1
          /\ app.redirected = 0 => app.to = app.requested

\* a navigation to the management page of a game that is not configured has
\* settled at the root after one redirect
C40_Witness ==
    /\ app.pc = "settled"
    /\ app.requested = <<"/", "Management", "/", "Bar">>
    /\ "Bar" \notin app.games
    /\ app.redirected = 1
    /\ app.to = RootPath

=============================================================================
